---- MODULE Spec2Model ----
(***************************************************************************)
(* messaging.mojo: permission engine (PermissionService), conversation and *)
(* message service (MessagingService), the contact routes that write the   *)
(* tables the permission engine reads, and the session handler of          *)
(* message:send.  The durable store is the set of tables; every await on   *)
(* the store inside createConversation, sendMessage and the respond route  *)
(* is a separate step, so that other handlers interleave between them.     *)
(***************************************************************************)
EXTENDS Integers, Sequences, FiniteSets, TLC

\* ------------------------------------------------------------------------
\* Bounds of the model
\* ------------------------------------------------------------------------
MaxTime == 1
MaxConversations == 2
MaxMessages == 2
MaxScenarioTime == 1
MaxScenarioOps == 6
MaxRateMessages == 11
MaxPackets == 2
MaxWire == 6
MaxPageMessages == 3
MaxTypingTime == 4
MaxTypingOps == 3

\* ------------------------------------------------------------------------
\* Values
\* ------------------------------------------------------------------------
Null == "null"
NullTime == -1
NoId == 0
NoLimit == 0

Users == {"u1", "u2", "u3"}
Procs == {1, 2}

\* Length of a server-local day in clock units (getMessageCountToday
\* truncates "now" to local midnight).
DayLength == 3

\* Lifetime of a contact request in clock units (7 days in the route).
RequestExpiry == 1

\* Typing: a field counts for 5 seconds, the key lives 10 seconds; one
\* clock unit stands for 2.5 seconds.
TypingWindow == 2
TypingTtl == 4

\* Longest content the request route accepts, in characters.
MaxContent == 10000

VARIABLES
  conversations,   \* table Conversation: sequence, id = index
  participants,    \* table Participant: set of rows
  messages,        \* table Message: sequence, id = index
  contactRequests, \* table ContactRequest: sequence, id = index
  blockedUsers,    \* table BlockedUser: set of <<userId, blockedUserId>>
  messagingRules,  \* table MessagingRule: set of rows
  now,             \* Date.now() / new Date()
  calls,           \* per worker: the handler it runs, its position, its result
  published,       \* per worker: events its current session handler has emitted
  history,         \* completed service calls of the sequential client
  online,          \* Redis sets online:{tenantId} / online:global
  lastSeen,        \* Redis keys user:lastSeen:{userId}
  sockets,         \* per connection: handshake, state, rooms, handler position
  outbound,        \* per connection: the packets written to it, in order
  emitted,         \* every emit of the server, in the order of the calls
  typing,          \* Redis hashes typing:{conversationId} and their expiry
  node             \* the process: how far start() has come, what it can reach

vars == <<conversations, participants, messages, contactRequests,
          blockedUsers, messagingRules, now, calls, published, history,
          online, lastSeen, sockets, outbound, emitted, typing, node>>

\* Presence store and connections: untouched by the request routes.
realtime == <<online, lastSeen, sockets, outbound, emitted, typing, node>>

store == <<conversations, participants, messages, contactRequests,
           blockedUsers, messagingRules>>

\* ------------------------------------------------------------------------
\* UserContext values (permissions.d.ts): what a verified token, or a
\* caller of the service, says about a user.
\* ------------------------------------------------------------------------
Ctx(u, t, tr, pr) ==
  [userId |-> u, tenantId |-> t, tenantRole |-> tr, platformRole |-> pr]

\* canCreateConversation and the routes pass recipients as { userId } only.
UserOnly(u) == Ctx(u, Null, Null, Null)

Contexts ==
  { Ctx("u1", "t1", "owner", Null),
    Ctx("u2", "t2", "owner", Null),
    Ctx("u2", "t1", "member", Null),
    Ctx("u3", Null, Null, "platform_support"),
    Ctx("u1", "t1", Null, Null),
    Ctx("u2", "t1", Null, Null),
    UserOnly("u1"), UserOnly("u2"), UserOnly("u3") }

\* ------------------------------------------------------------------------
\* Messaging rules
\* ------------------------------------------------------------------------
Rule(id, ss, sr, ts, tr, appr, max, act, prio) ==
  [id |-> id, sourceScope |-> ss, sourceRoles |-> sr, targetScope |-> ts,
   targetRoles |-> tr, requireApproval |-> appr, maxMessagesPerDay |-> max,
   isActive |-> act, priority |-> prio]

TeamInternal ==
  Rule("team-internal", "tenant", {"owner", "admin", "member"},
       "tenant", {"owner", "admin", "member"}, FALSE, NoLimit, TRUE, 100)
CrossOrgManagers ==
  Rule("cross-org-managers", "platform", {"owner", "admin"},
       "platform", {"owner", "admin"}, TRUE, 10, TRUE, 50)
SupportChannel ==
  Rule("support-channel", "platform", {"owner", "admin", "member"},
       "platform", {"platform_support"}, FALSE, NoLimit, TRUE, 90)
PlatformAnnouncements ==
  Rule("platform-announcements", "platform", {"platform_admin"},
       "platform", {"owner", "admin", "member"}, FALSE, NoLimit, TRUE, 80)

\* The array literal, in its source order.
DEFAULT_RULES ==
  <<TeamInternal, CrossOrgManagers, SupportChannel, PlatformAnnouncements>>

\* The rows prisma/seed.ts upserts.
SeedRules ==
  {TeamInternal, CrossOrgManagers, SupportChannel, PlatformAnnouncements}

\* A rule table an operator can have configured: a rate-limited rule that
\* needs no approval, above the seed rules.
LimitedRule ==
  Rule("limited-managers", "platform", {"owner", "admin"},
       "platform", {"owner", "admin"}, FALSE, 1, TRUE, 60)

RuleTables == { {}, SeedRules, SeedRules \cup {LimitedRule} }

\* ------------------------------------------------------------------------
\* Store queries
\* ------------------------------------------------------------------------
ConvIds == 1..Len(conversations)
MsgIds == 1..Len(messages)
ReqIds == 1..Len(contactRequests)

ParticipantsOf(c) == {p \in participants : p.conversationId = c}
ParticipantRow(c, u) ==
  {p \in participants : p.conversationId = c /\ p.userId = u}

\* prisma.participant.findUnique({conversationId_userId}) -> !!participant
IsParticipant(userId, conversationId) ==
  ParticipantRow(conversationId, userId) # {}

\* A lookup of the caller's own block only, for the sensitivity check of C7.
IsBlockedOneWay(userId, targetUserId) ==
  <<userId, targetUserId>> \in blockedUsers

\* prisma.blockedUser.findFirst({OR: [(a,b), (b,a)]})
IsBlocked(userId, targetUserId) ==
  \/ <<userId, targetUserId>> \in blockedUsers
  \/ <<targetUserId, userId>> \in blockedUsers

\* A lookup that takes a request of any status, for the sensitivity check
\* of C9.
HasContactOfAnyStatus(userId1, userId2) ==
  \E i \in ReqIds :
    {contactRequests[i].fromUserId, contactRequests[i].toUserId} = {userId1, userId2}

\* prisma.contactRequest.findFirst({OR: [(a,b,ACCEPTED), (b,a,ACCEPTED)]})
HasApprovedContact(userId1, userId2) ==
  \E i \in ReqIds :
    /\ contactRequests[i].status = "ACCEPTED"
    /\ \/ /\ contactRequests[i].fromUserId = userId1
          /\ contactRequests[i].toUserId = userId2
       \/ /\ contactRequests[i].fromUserId = userId2
          /\ contactRequests[i].toUserId = userId1

\* prisma.contactRequest.findFirst({from, to, PENDING, expiresAt > now})
GetPendingRequest(fromUserId, toUserId) ==
  \E i \in ReqIds :
    /\ contactRequests[i].fromUserId = fromUserId
    /\ contactRequests[i].toUserId = toUserId
    /\ contactRequests[i].status = "PENDING"
    /\ contactRequests[i].expiresAt > now

\* orderBy: { priority: 'desc' } over a set of rows.
RECURSIVE SortByPriorityDesc(_)
SortByPriorityDesc(rows) ==
  IF rows = {} THEN <<>>
  ELSE LET top == CHOOSE r \in rows : \A q \in rows : q.priority <= r.priority
       IN <<top>> \o SortByPriorityDesc(rows \ {top})

\* findMany({isActive: true}, orderBy priority desc); DEFAULT_RULES when
\* that result is empty.
GetActiveRules ==
  LET dbRules == SortByPriorityDesc({r \in messagingRules : r.isActive})
  IN IF Len(dbRules) = 0 THEN DEFAULT_RULES ELSE dbRules

MatchesRule(rule, sender, recipient) ==
  /\ IF rule.sourceScope = "tenant"
       THEN /\ sender.tenantId # Null
            /\ sender.tenantRole # Null
            /\ sender.tenantRole \in rule.sourceRoles
       ELSE IF rule.sourceScope = "platform"
         THEN \/ sender.tenantRole # Null /\ sender.tenantRole \in rule.sourceRoles
              \/ sender.platformRole # Null /\ sender.platformRole \in rule.sourceRoles
         ELSE TRUE
  /\ IF rule.targetScope = "tenant"
       THEN /\ sender.tenantId = recipient.tenantId
            /\ recipient.tenantRole # Null
            /\ recipient.tenantRole \in rule.targetRoles
       ELSE IF rule.targetScope = "platform"
         THEN \/ recipient.tenantRole # Null /\ recipient.tenantRole \in rule.targetRoles
              \/ recipient.platformRole # Null /\ recipient.platformRole \in rule.targetRoles
         ELSE TRUE

\* conversation.findFirst({type: DIRECT, participants: {every: {userId in [a,b]}}}):
\* the candidates of the query.  "every" also holds of a conversation
\* without participant rows.
DirectCandidates(userId1, userId2) ==
  {c \in ConvIds :
     /\ conversations[c].type = "DIRECT"
     /\ \A p \in ParticipantsOf(c) : p.userId \in {userId1, userId2}}

\* today.setHours(0, 0, 0, 0)
StartOfDay(t) == (t \div DayLength) * DayLength

\* findFirst has no orderBy; the row the store returns first is taken to be
\* the one of lowest id.
GetMessageCountToday(senderId, recipientId) ==
  LET cands == DirectCandidates(senderId, recipientId)
  IN IF cands = {} THEN 0
     ELSE LET conv == CHOOSE c \in cands : \A d \in cands : c <= d
          IN Cardinality({m \in MsgIds :
                            /\ messages[m].conversationId = conv
                            /\ messages[m].senderId = senderId
                            /\ messages[m].createdAt >= StartOfDay(now)})

\* ------------------------------------------------------------------------
\* PermissionService.canSendMessage
\* ------------------------------------------------------------------------
Result(allowed, rule, requiresApproval, reason) ==
  [allowed |-> allowed, rule |-> rule, requiresApproval |-> requiresApproval,
   reason |-> reason]

\* The body of "if (matches) { ... }" for one rule.
RuleOutcome(rule, sender, recipient) ==
  IF rule.requireApproval
    THEN IF GetPendingRequest(sender.userId, recipient.userId)
           THEN Result(FALSE, rule.id, TRUE, "Contact request pending")
           ELSE Result(FALSE, rule.id, TRUE, "Contact request required")
    ELSE IF /\ rule.maxMessagesPerDay # NoLimit
            /\ GetMessageCountToday(sender.userId, recipient.userId)
                 >= rule.maxMessagesPerDay
           THEN Result(FALSE, rule.id, FALSE, "Rate limit exceeded")
           ELSE Result(TRUE, rule.id, FALSE, Null)

\* for (const rule of rules) { if (matches) return ... } return no-rule
RECURSIVE RuleLoop(_, _, _, _)
RuleLoop(rules, i, sender, recipient) ==
  IF i > Len(rules)
    THEN Result(FALSE, Null, FALSE, "No matching permission rule")
    ELSE IF MatchesRule(rules[i], sender, recipient)
           THEN RuleOutcome(rules[i], sender, recipient)
           ELSE RuleLoop(rules, i + 1, sender, recipient)

\* The checks with the tenant test moved in front of the block test, for
\* the sensitivity check of C8.
CanSendMessageTenantFirst(sender, recipient) ==
  IF sender.userId = recipient.userId
    THEN Result(TRUE, Null, FALSE, "Self-messaging allowed")
  ELSE IF sender.tenantId # Null /\ sender.tenantId = recipient.tenantId
    THEN Result(TRUE, Null, FALSE, "Same tenant")
  ELSE IF IsBlocked(sender.userId, recipient.userId)
    THEN Result(FALSE, Null, FALSE, "User is blocked")
  ELSE IF HasApprovedContact(sender.userId, recipient.userId)
    THEN Result(TRUE, Null, FALSE, "Approved contact")
  ELSE RuleLoop(GetActiveRules, 1, sender, recipient)

CanSendMessage(sender, recipient) ==
  IF sender.userId = recipient.userId
    THEN Result(TRUE, Null, FALSE, "Self-messaging allowed")
  ELSE IF IsBlocked(sender.userId, recipient.userId)
    THEN Result(FALSE, Null, FALSE, "User is blocked")
  ELSE IF sender.tenantId # Null /\ sender.tenantId = recipient.tenantId
    THEN Result(TRUE, Null, FALSE, "Same tenant")
  ELSE IF HasApprovedContact(sender.userId, recipient.userId)
    THEN Result(TRUE, Null, FALSE, "Approved contact")
  ELSE RuleLoop(GetActiveRules, 1, sender, recipient)

\* for (const participantId of participantIds) { ... first denial returns }
RECURSIVE GroupLoop(_, _, _)
GroupLoop(creator, participantIds, i) ==
  IF i > Len(participantIds)
    THEN Result(TRUE, Null, FALSE, "All participants allowed")
    ELSE IF CanSendMessage(creator, UserOnly(participantIds[i])).allowed
           THEN GroupLoop(creator, participantIds, i + 1)
           ELSE Result(FALSE, Null, FALSE, "Cannot add user")

\* A weaker check, for the sensitivity check of C29: DIRECT looks at the
\* first participant only, however many are given.
CanCreateConversationFirstOnly(creator, participantIds, type) ==
  IF type = "SUPPORT"
    THEN Result(TRUE, Null, FALSE, "Support conversations always allowed")
  ELSE IF type = "DIRECT" /\ Len(participantIds) >= 1
    THEN CanSendMessage(creator, UserOnly(participantIds[1]))
  ELSE IF type = "GROUP"
    THEN GroupLoop(creator, participantIds, 1)
  ELSE Result(FALSE, Null, FALSE, "Unknown conversation type")

CanCreateConversation(creator, participantIds, type) ==
  IF type = "SUPPORT"
    THEN Result(TRUE, Null, FALSE, "Support conversations always allowed")
  ELSE IF type = "DIRECT" /\ Len(participantIds) = 1
    THEN CanSendMessage(creator, UserOnly(participantIds[1]))
  ELSE IF type = "GROUP"
    THEN GroupLoop(creator, participantIds, 1)
  ELSE Result(FALSE, Null, FALSE, "Unknown conversation type")

\* ------------------------------------------------------------------------
\* Handlers in flight
\* ------------------------------------------------------------------------
NoPerm == Result(FALSE, Null, FALSE, Null)

Idle ==
  [op |-> "none", pc |-> "idle", ctx |-> UserOnly("u1"), path |-> "request",
   type |-> Null, pids |-> <<>>, conv |-> NoId, msg |-> NoId, req |-> NoId,
   target |-> Null, result |-> Null, perm |-> NoPerm, count |-> 0,
   at |-> NullTime, content |-> 1, replyTo |-> NoId, items |-> <<>>,
   cursor |-> NullTime]

Free(p) == calls[p].pc \in {"idle", "done"}

InFlightCreates ==
  Cardinality({q \in Procs : calls[q].op = "create" /\ calls[q].pc \in {"probe", "insert"}})
InFlightSends ==
  Cardinality({q \in Procs : calls[q].op = "send" /\ calls[q].pc = "message"})

Event(name, kind, conv, user, msg) ==
  [event |-> name, kind |-> kind, conv |-> conv, user |-> user, msg |-> msg]

\* ------------------------------------------------------------------------
\* MessagingService.createConversation
\* ------------------------------------------------------------------------
CreatorContexts ==
  { Ctx("u1", "t1", "owner", Null), Ctx("u2", "t2", "owner", Null) }
ConversationTypes == {"DIRECT", "GROUP", "SUPPORT"}
ParticipantLists ==
  { <<"u1">>, <<"u2">>, <<"u2", "u3">> }

\* canCreateConversation, and the throw on denial.
CreatePermission(p, creator, type, pids) ==
  /\ Free(p)
  /\ Len(conversations) + InFlightCreates < MaxConversations
  /\ LET permResult == CanCreateConversation(creator, pids, type)
         call == [Idle EXCEPT !.op = "create", !.ctx = creator, !.type = type,
                              !.pids = pids, !.perm = permResult]
     IN calls' = [calls EXCEPT ![p] =
          IF ~permResult.allowed
            THEN [call EXCEPT !.pc = "done", !.result = "PermissionDenied"]
            ELSE IF type = "DIRECT" /\ Len(pids) = 1
              THEN [call EXCEPT !.pc = "probe", !.result = "pending"]
              ELSE [call EXCEPT !.pc = "insert", !.result = "pending"]]
  /\ UNCHANGED <<store, now, published, history>>

\* findDirectConversation; an existing conversation is returned.
CreateProbe(p) ==
  /\ calls[p].op = "create" /\ calls[p].pc = "probe"
  /\ LET cands == DirectCandidates(calls[p].ctx.userId, calls[p].pids[1])
     IN IF cands = {}
          THEN calls' = [calls EXCEPT ![p].pc = "insert"]
          ELSE \E c \in cands :
                 calls' = [calls EXCEPT ![p].pc = "done", ![p].result = "ok",
                                        ![p].conv = c]
  /\ UNCHANGED <<store, now, published, history>>

\* The participant rows of the nested create: creator as OWNER, the others
\* as MEMBER (no tenantId given for them).
RECURSIVE MemberRows(_, _, _)
MemberRows(c, pids, i) ==
  IF i > Len(pids) THEN {}
  ELSE {[conversationId |-> c, userId |-> pids[i], tenantId |-> Null,
         role |-> "MEMBER", lastReadAt |-> NullTime]}
       \cup MemberRows(c, pids, i + 1)

NewParticipantRows(c, creator, pids) ==
  {[conversationId |-> c, userId |-> creator.userId, tenantId |-> creator.tenantId,
    role |-> "OWNER", lastReadAt |-> NullTime]}
  \cup MemberRows(c, pids, 1)

\* Two rows of one conversation for the same user violate the key
\* (conversationId, userId); the nested create then writes nothing.
ViolatesParticipantKey(creator, pids) ==
  \/ \E i \in 1..Len(pids) : pids[i] = creator.userId
  \/ \E i, j \in 1..Len(pids) : i # j /\ pids[i] = pids[j]

\* prisma.conversation.create with nested participants.
CreateInsert(p) ==
  /\ calls[p].op = "create" /\ calls[p].pc = "insert"
  /\ IF ViolatesParticipantKey(calls[p].ctx, calls[p].pids)
       THEN /\ calls' = [calls EXCEPT ![p].pc = "done", ![p].result = "StoreError"]
            /\ UNCHANGED <<conversations, participants>>
       ELSE LET c == Len(conversations) + 1
            IN /\ conversations' = Append(conversations,
                     [type |-> calls[p].type, createdAt |-> now, updatedAt |-> now])
               /\ participants' = participants
                     \cup NewParticipantRows(c, calls[p].ctx, calls[p].pids)
               /\ calls' = [calls EXCEPT ![p].pc = "done", ![p].result = "ok",
                                         ![p].conv = c]
  /\ UNCHANGED <<messages, contactRequests, blockedUsers, messagingRules,
                 now, published, history>>

\* ------------------------------------------------------------------------
\* MessagingService.sendMessage, from the request route (path "request")
\* and from socket.on('message:send') (path "session")
\* ------------------------------------------------------------------------
Paths == {"request", "session"}

\* The sends of SpecSend: <<sender, path, conversationId>>; conversation 3
\* does not exist.
SendInputs ==
  { <<Ctx("u1", "t1", Null, Null), "request", 1>>,
    <<Ctx("u2", "t2", Null, Null), "session", 1>>,
    <<Ctx("u2", "t2", Null, Null), "request", 2>>,
    <<Ctx("u3", Null, Null, Null), "session", 1>>,
    <<Ctx("u3", Null, Null, Null), "request", 2>>,
    <<Ctx("u1", "t1", Null, Null), "session", 3>> }

\* catch (error) { socket.emit('message:error', ...) } on the session path.
ErrorEvents(call) ==
  IF call.path = "session"
    THEN {Event("message:error", "socket", call.conv, call.ctx.userId, NoId)}
    ELSE {}

\* The throw of sendMessage as its caller sees it.
SendFails(p, reason) ==
  /\ calls' = [calls EXCEPT ![p].pc = "done", ![p].result = reason]
  /\ published' = [published EXCEPT ![p] = @ \cup ErrorEvents(calls[p])]

\* A weaker gate, for the sensitivity check of C3: it only looks whether
\* the conversation exists.
ParticipantGateConversationOnly(userId, conversationId) ==
  conversationId \in ConvIds

\* isParticipant, and the throw when it is false.
ParticipantGate(userId, conversationId) == IsParticipant(userId, conversationId)

\* sendMessage(sender, { conversationId, content, replyToId }); content is
\* kept by its length.
SendCheckInput(p, sender, path, conversationId, limit, content, replyToId) ==
  /\ Free(p)
  /\ Len(messages) + InFlightSends < limit
  /\ LET call == [Idle EXCEPT !.op = "send", !.ctx = sender, !.path = path,
                              !.conv = conversationId, !.result = "pending",
                              !.content = content, !.replyTo = replyToId]
     IN IF ParticipantGate(sender.userId, conversationId)
          THEN /\ calls' = [calls EXCEPT ![p] = [call EXCEPT !.pc = "message"]]
               /\ published' = [published EXCEPT ![p] = {}]
          ELSE /\ calls' = [calls EXCEPT ![p] =
                    [call EXCEPT !.pc = "done", !.result = "NotParticipant"]]
               /\ published' = [published EXCEPT ![p] = ErrorEvents(call)]
  /\ UNCHANGED <<store, now, history>>

\* A send of one character without replyToId.
SendCheck(p, sender, path, conversationId, limit) ==
  SendCheckInput(p, sender, path, conversationId, limit, 1, NoId)

\* prisma.message.create; createdAt is the time of the insert.
SendInsertMessage(p, outcomes) ==
  /\ calls[p].op = "send" /\ calls[p].pc = "message"
  /\ \E ok \in outcomes :
       IF ok
         THEN /\ messages' = Append(messages,
                   [conversationId |-> calls[p].conv,
                    senderId |-> calls[p].ctx.userId,
                    content |-> calls[p].content,
                    replyToId |-> calls[p].replyTo,
                    createdAt |-> now, deletedAt |-> NullTime])
              /\ calls' = [calls EXCEPT ![p].pc = "conversation",
                                        ![p].msg = Len(messages) + 1]
              /\ UNCHANGED published
         ELSE /\ SendFails(p, "StoreError")
              /\ UNCHANGED messages
  /\ UNCHANGED <<conversations, participants, contactRequests, blockedUsers,
                 messagingRules, now, history>>

\* prisma.conversation.update({ updatedAt: new Date() })
SendTouchConversation(p, outcomes) ==
  /\ calls[p].op = "send" /\ calls[p].pc = "conversation"
  /\ \E ok \in outcomes :
       IF ok
         THEN /\ conversations' =
                   [conversations EXCEPT ![calls[p].conv].updatedAt = now]
              /\ calls' = [calls EXCEPT ![p].pc = "participant"]
              /\ UNCHANGED published
         ELSE /\ SendFails(p, "StoreError")
              /\ UNCHANGED conversations
  /\ UNCHANGED <<participants, messages, contactRequests, blockedUsers,
                 messagingRules, now, history>>

\* The same update as the store sees it: `new Date()` is evaluated when the
\* handler makes the call, the row is written when the statement reaches
\* the database.  Other handlers run in between.
TouchConversationStamp(p) ==
  /\ calls[p].op = "send" /\ calls[p].pc = "conversation"
  /\ calls' = [calls EXCEPT ![p].pc = "conversation-write", ![p].at = now]
  /\ UNCHANGED <<store, now, published, history>>

TouchConversationWrite(p) ==
  /\ calls[p].op = "send" /\ calls[p].pc = "conversation-write"
  /\ conversations' =
       [conversations EXCEPT ![calls[p].conv].updatedAt = calls[p].at]
  /\ calls' = [calls EXCEPT ![p].pc = "participant"]
  /\ UNCHANGED <<participants, messages, contactRequests, blockedUsers,
                 messagingRules, now, published, history>>

\* An update that writes the epoch instead of the current time, for the
\* sensitivity check of C15.
SetLastReadAtEpoch(rows, conversationId, userId, t) ==
  {IF r.conversationId = conversationId /\ r.userId = userId
     THEN [r EXCEPT !.lastReadAt = 0] ELSE r : r \in rows}

\* An update that leaves the row as it is, for the sensitivity check of C5.
KeepLastReadAt(rows, conversationId, userId, t) == rows

\* participant.update({ lastReadAt: new Date() }) of one row.
SetLastReadAt(rows, conversationId, userId, t) ==
  {IF r.conversationId = conversationId /\ r.userId = userId
     THEN [r EXCEPT !.lastReadAt = t] ELSE r : r \in rows}

\* The sender's own lastReadAt; then sendMessage returns.
SendTouchSender(p, outcomes, log) ==
  /\ calls[p].op = "send" /\ calls[p].pc = "participant"
  /\ \E ok \in outcomes :
       IF ok
         THEN /\ participants' = SetLastReadAt(participants, calls[p].conv,
                                               calls[p].ctx.userId, now)
              /\ calls' = [calls EXCEPT
                   ![p].pc = IF calls[p].path = "session" THEN "emit" ELSE "done",
                   ![p].result = IF calls[p].path = "session" THEN "pending" ELSE "ok"]
              /\ history' = IF log THEN Append(history, <<"send", calls[p].ctx.userId>>)
                                   ELSE history
              /\ UNCHANGED published
         ELSE /\ SendFails(p, "StoreError")
              /\ UNCHANGED <<participants, history>>
  /\ UNCHANGED <<conversations, messages, contactRequests, blockedUsers,
                 messagingRules, now>>

\* io.to(`conversation:${id}`).emit('message:new')
SendEmit(p) ==
  /\ calls[p].op = "send" /\ calls[p].pc = "emit"
  /\ published' = [published EXCEPT ![p] = @
       \cup {Event("message:new", "conversation", calls[p].conv, Null, calls[p].msg)}]
  /\ calls' = [calls EXCEPT ![p].pc = "fanout"]
  /\ UNCHANGED <<store, now, history>>

\* A fan-out that reaches nobody, for the sensitivity check of C22.
FanoutTargetsNone(conversationId, senderId) == {}

\* for (const p of participants) if (p.userId !== userId)
FanoutTargets(conversationId, senderId) ==
  {q \in ParticipantsOf(conversationId) : q.userId # senderId}

\* getParticipants, message:new to the user room of every other
\* participant, message:sent to the sender; the handler goes on at pc.
SendFanoutThen(p, pc, result) ==
  /\ calls[p].op = "send" /\ calls[p].pc = "fanout"
  /\ published' = [published EXCEPT ![p] = @
       \cup {Event("message:new", "user", calls[p].conv, r.userId, calls[p].msg) :
               r \in FanoutTargets(calls[p].conv, calls[p].ctx.userId)}
       \cup {Event("message:sent", "socket", calls[p].conv, calls[p].ctx.userId,
                   calls[p].msg)}]
  /\ calls' = [calls EXCEPT ![p].pc = pc, ![p].result = result]
  /\ UNCHANGED <<store, now, history>>

\* The fan-out with the handler's last await (the typing flag) left out.
SendFanout(p) == SendFanoutThen(p, "done", "ok")

\* ------------------------------------------------------------------------
\* POST /conversations/:conversationId/messages and MessagingService.getMessages
\* ------------------------------------------------------------------------
\* content: z.string().min(1).max(10000)
ValidContent(content) == content >= 1 /\ content <= MaxContent

\* sendMessageSchema.safeParse, ValidationError, else sendMessage.
PostMessage(p, user, conversationId, limit, content, replyToId) ==
  IF ValidContent(content)
    THEN SendCheckInput(p, user, "request", conversationId, limit, content, replyToId)
    ELSE /\ Free(p)
         /\ calls' = [calls EXCEPT ![p] =
              [Idle EXCEPT !.op = "send", !.pc = "done", !.ctx = user,
                           !.conv = conversationId, !.content = content,
                           !.replyTo = replyToId, !.result = "ValidationError"]]
         /\ published' = [published EXCEPT ![p] = {}]
         /\ UNCHANGED <<store, now, history>>

\* where: { conversationId, deletedAt: null, createdAt: { lt: cursor } }
Listed(conversationId, cursor) ==
  {m \in MsgIds :
     /\ messages[m].conversationId = conversationId
     /\ messages[m].deletedAt = NullTime
     /\ (cursor # NullTime => messages[m].createdAt < cursor)}

NewestFirst(items) ==
  \A i \in 1..Len(items) : \A j \in 1..Len(items) :
    i < j => messages[items[i]].createdAt >= messages[items[j]].createdAt

\* findMany({ orderBy: { createdAt: 'desc' }, take }): the rows, newest
\* first; among rows of equal createdAt the store is free in its order.
FindManyDesc(ids, take) ==
  LET n == Cardinality(ids)
      orders == {o \in [1..n -> ids] :
                   /\ \A i \in 1..n : \A j \in 1..n : i # j => o[i] # o[j]
                   /\ NewestFirst(o)}
  IN {SubSeq(o, 1, IF take < n THEN take ELSE n) : o \in orders}

\* getMessages(userId, conversationId, limit, cursor): what the call
\* returns ({ messages: items, nextCursor }); the caller's limit is kept
\* with the call.
GetMessagesPage(p, userId, conversationId, limit, cursor) ==
  /\ LET call == [Idle EXCEPT !.op = "messages", !.pc = "done",
                              !.ctx = UserOnly(userId), !.conv = conversationId,
                              !.count = limit]
     IN IF IsParticipant(userId, conversationId)
          THEN \E found \in FindManyDesc(Listed(conversationId, cursor), limit + 1) :
                 LET hasMore == Len(found) > limit
                     items == IF hasMore THEN SubSeq(found, 1, Len(found) - 1)
                                         ELSE found
                 IN calls' = [calls EXCEPT ![p] =
                      [call EXCEPT !.result = "ok", !.items = items,
                                   !.cursor = IF hasMore
                                                THEN messages[items[Len(items)]].createdAt
                                                ELSE NullTime]]
          ELSE calls' = [calls EXCEPT ![p] = [call EXCEPT !.result = "NotParticipant"]]

GetMessages(p, userId, conversationId, limit, cursor) ==
  /\ Free(p)
  /\ GetMessagesPage(p, userId, conversationId, limit, cursor)
  /\ UNCHANGED <<store, now, published, history>>

\* ------------------------------------------------------------------------
\* MessagingService.markAsRead and getUnreadCount
\* ------------------------------------------------------------------------
\* participant.update throws when the row does not exist.
MarkAsRead(p, userId, conversationId, log) ==
  /\ Free(p)
  /\ LET call == [Idle EXCEPT !.op = "read", !.pc = "done",
                              !.ctx = UserOnly(userId), !.conv = conversationId]
     IN IF IsParticipant(userId, conversationId)
          THEN /\ participants' =
                    SetLastReadAt(participants, conversationId, userId, now)
               /\ calls' = [calls EXCEPT ![p] = [call EXCEPT !.result = "ok"]]
               /\ history' = IF log THEN Append(history, <<"read", userId>>)
                                    ELSE history
          ELSE /\ UNCHANGED <<participants, history>>
               /\ calls' = [calls EXCEPT ![p] = [call EXCEPT !.result = "StoreError"]]
  /\ UNCHANGED <<conversations, messages, contactRequests, blockedUsers,
                 messagingRules, now, published>>

\* A count with "gte" in place of "gt", for the sensitivity check of C4.
CountUnreadGte(row, userId) ==
  Cardinality({m \in MsgIds :
     /\ messages[m].conversationId = row.conversationId
     /\ messages[m].senderId # userId
     /\ (row.lastReadAt # NullTime => messages[m].createdAt >= row.lastReadAt)
     /\ messages[m].deletedAt = NullTime})

\* prisma.message.count of one participant row p of the viewer.
CountUnread(row, userId) ==
  Cardinality({m \in MsgIds :
     /\ messages[m].conversationId = row.conversationId
     /\ messages[m].senderId # userId
     /\ (row.lastReadAt # NullTime => messages[m].createdAt > row.lastReadAt)
     /\ messages[m].deletedAt = NullTime})

\* let totalUnread = 0; for (const p of participants) totalUnread += count
RECURSIVE SumUnread(_, _)
SumUnread(rows, userId) ==
  IF rows = {} THEN 0
  ELSE LET row == CHOOSE r \in rows : TRUE
       IN CountUnread(row, userId) + SumUnread(rows \ {row}, userId)

GetUnreadCount(userId) ==
  SumUnread({r \in participants : r.userId = userId}, userId)

UnreadCount(p, userId) ==
  /\ Free(p)
  /\ calls' = [calls EXCEPT ![p] =
       [Idle EXCEPT !.op = "unread", !.pc = "done", !.ctx = UserOnly(userId),
                    !.result = "ok", !.count = GetUnreadCount(userId)]]
  /\ UNCHANGED <<store, now, published, history>>

\* ------------------------------------------------------------------------
\* Contact routes: respond, block, unblock, can-message
\* ------------------------------------------------------------------------
BlockUsers == {"u1", "u2"}
Responses == {"accept", "decline"}

\* findUnique and the three checks of POST /contacts/requests/:id/respond.
RespondFind(p, userId, id, action) ==
  /\ Free(p)
  /\ LET call == [Idle EXCEPT !.op = "respond", !.ctx = UserOnly(userId),
                              !.req = id, !.target = action]
     IN calls' = [calls EXCEPT ![p] =
          IF id \notin ReqIds
            THEN [call EXCEPT !.pc = "done", !.result = "NOT_FOUND"]
          ELSE IF contactRequests[id].toUserId # userId
            THEN [call EXCEPT !.pc = "done", !.result = "FORBIDDEN"]
          ELSE IF contactRequests[id].status # "PENDING"
            THEN [call EXCEPT !.pc = "done", !.result = "CONFLICT"]
          ELSE [call EXCEPT !.pc = "update", !.result = "pending"]]
  /\ UNCHANGED <<store, now, published, history>>

\* prisma.contactRequest.update({ where: { id } })
RespondUpdate(p) ==
  /\ calls[p].op = "respond" /\ calls[p].pc = "update"
  /\ contactRequests' = [contactRequests EXCEPT
       ![calls[p].req].status =
          IF calls[p].target = "accept" THEN "ACCEPTED" ELSE "DECLINED",
       ![calls[p].req].respondedAt = now]
  /\ calls' = [calls EXCEPT ![p].pc = "done", ![p].result = "ok"]
  /\ UNCHANGED <<conversations, participants, messages, blockedUsers,
                 messagingRules, now, published, history>>

\* POST /contacts/block: self-block is a conflict, otherwise an upsert.
BlockUser(p, userId, blockedUserId) ==
  /\ Free(p)
  /\ LET call == [Idle EXCEPT !.op = "block", !.pc = "done",
                              !.ctx = UserOnly(userId), !.target = blockedUserId]
     IN IF blockedUserId = userId
          THEN /\ calls' = [calls EXCEPT ![p] = [call EXCEPT !.result = "CONFLICT"]]
               /\ UNCHANGED blockedUsers
          ELSE /\ calls' = [calls EXCEPT ![p] = [call EXCEPT !.result = "ok"]]
               /\ blockedUsers' = blockedUsers \cup {<<userId, blockedUserId>>}
  /\ UNCHANGED <<conversations, participants, messages, contactRequests,
                 messagingRules, now, published, history>>

\* DELETE /contacts/block/:userId: deleteMany of the caller's own row
\* (count is the number of rows deleteMany removed).
UnblockUser(p, userId, blockedUserId) ==
  /\ Free(p)
  /\ blockedUsers' = blockedUsers \ {<<userId, blockedUserId>>}
  /\ calls' = [calls EXCEPT ![p] =
       [Idle EXCEPT !.op = "unblock", !.pc = "done", !.ctx = UserOnly(userId),
                    !.target = blockedUserId, !.result = "ok",
                    !.count = IF <<userId, blockedUserId>> \in blockedUsers
                                THEN 1 ELSE 0]]
  /\ UNCHANGED <<conversations, participants, messages, contactRequests,
                 messagingRules, now, published, history>>

\* GET /contacts/requests: findMany({ toUserId, PENDING, expiresAt > now })
ReceivedRequests(userId) ==
  {i \in ReqIds : /\ contactRequests[i].toUserId = userId
                  /\ contactRequests[i].status = "PENDING"
                  /\ contactRequests[i].expiresAt > now}

\* GET /contacts/requests/sent: findMany({ fromUserId, PENDING })
SentRequests(userId) ==
  {i \in ReqIds : /\ contactRequests[i].fromUserId = userId
                  /\ contactRequests[i].status = "PENDING"}

\* The contexts POST /contacts/requests would pass if it handed over what
\* the token says about the sender and a role for the recipient; for the
\* sensitivity check of C13.
RequestPermissionWithRoles(user, toUserId) ==
  CanSendMessage(user, Ctx(toUserId, Null, "owner", Null))

\* canSendMessage({ userId, tenantId }, { userId: toUserId }) as the route
\* calls it: the roles of request.user are not passed on.
RequestPermission(user, toUserId) ==
  CanSendMessage(Ctx(user.userId, user.tenantId, Null, Null), UserOnly(toUserId))

\* contactRequest.findFirst({ fromUserId, toUserId, status: 'PENDING' })
ExistingPending(fromUserId, toUserId) ==
  \E i \in ReqIds :
    /\ contactRequests[i].fromUserId = fromUserId
    /\ contactRequests[i].toUserId = toUserId
    /\ contactRequests[i].status = "PENDING"

\* POST /contacts/requests, one step per await: the permission check and
\* its throws, the lookup of an existing request, the create.  With the
\* contexts RequestPermission passes, canSendMessage never answers
\* requiresApproval (no rule matches a context without roles), so the
\* lookup and the create are only reached if that changes.
PostContactRequest(p, user, toUserId) ==
  /\ IF calls[p].op = "request" /\ calls[p].pc = "existing"
       THEN /\ calls' = [calls EXCEPT ![p] =
                 IF ExistingPending(calls[p].ctx.userId, calls[p].target)
                   THEN [@ EXCEPT !.pc = "done", !.result = "CONTACT_REQUEST_PENDING"]
                   ELSE [@ EXCEPT !.pc = "create"]]
            /\ UNCHANGED contactRequests
     ELSE IF calls[p].op = "request" /\ calls[p].pc = "create"
       THEN /\ contactRequests' = Append(contactRequests,
                 [fromUserId |-> calls[p].ctx.userId, toUserId |-> calls[p].target,
                  status |-> "PENDING", expiresAt |-> now + RequestExpiry,
                  respondedAt |-> NullTime, ruleId |-> calls[p].perm.rule])
            /\ calls' = [calls EXCEPT ![p].pc = "done", ![p].result = "created",
                                      ![p].req = Len(contactRequests) + 1]
     ELSE /\ Free(p)
          /\ LET permResult == RequestPermission(user, toUserId)
                 call == [Idle EXCEPT !.op = "request", !.ctx = user,
                                      !.target = toUserId, !.perm = permResult]
             IN calls' = [calls EXCEPT ![p] =
                  IF permResult.allowed
                    THEN [call EXCEPT !.pc = "done", !.result = "CONFLICT"]
                  ELSE IF permResult.requiresApproval
                    THEN [call EXCEPT !.pc = "existing", !.result = "pending"]
                  ELSE [call EXCEPT !.pc = "done",
                                    !.result = "CONTACT_REQUEST_REQUIRED"]]
          /\ UNCHANGED contactRequests
  /\ UNCHANGED <<conversations, participants, messages, blockedUsers,
                 messagingRules, now, published, history>>

\* A caller of permissionService.canSendMessage with both contexts.
PermissionQueries ==
  { <<Ctx("u1", "t1", "owner", Null), Ctx("u2", "t2", "owner", Null)>>,
    <<Ctx("u2", "t2", "owner", Null), Ctx("u1", "t1", "owner", Null)>>,
    <<Ctx("u1", "t1", "owner", Null), Ctx("u2", "t1", "member", Null)>> }

CheckCanSend(p, sender, recipient) ==
  /\ Free(p)
  /\ calls' = [calls EXCEPT ![p] =
       [Idle EXCEPT !.op = "canSend", !.pc = "done", !.ctx = sender,
                    !.target = recipient.userId, !.result = "ok",
                    !.perm = CanSendMessage(sender, recipient)]]
  /\ UNCHANGED <<store, now, published, history>>

\* ------------------------------------------------------------------------
\* Time
\* ------------------------------------------------------------------------
Tick(limit) ==
  /\ now < limit
  /\ now' = now + 1
  /\ UNCHANGED <<store, calls, published, history>>

\* ------------------------------------------------------------------------
\* Presence (lib/redis.ts) and sessions (websocket/server.ts)
\* ------------------------------------------------------------------------
SocketIds == {1, 2}
Tokens == {"missing", "rejected", "nosub", "valid"}
OnlineKeys == {"t1", "t2", "global"}
TypingKeys == {1, 2}

\* tenantId ? `online:${tenantId}` : 'online:global'
OnlineKey(tenantId) == IF tenantId # Null THEN tenantId ELSE "global"

\* redis.sadd(key, userId)
SAdd(members, userId) == members \cup {userId}

\* A removal that removes nothing, for the sensitivity check of C16.
SRemNothing(members, userId) == members

\* redis.srem(key, userId)
SRem(members, userId) == members \ {userId}

\* presence.isOnline, presence.getOnlineUsers, presence.getLastSeen
IsOnline(userId, tenantId) == userId \in online[OnlineKey(tenantId)]
GetOnlineUsers(tenantId) == online[OnlineKey(tenantId)]
GetLastSeen(userId) == lastSeen[userId]

\* The hash typing:{conversationId} is gone once its expiry has passed.
TypingExpired(c) ==
  typing[c].expiresAt # NullTime /\ typing[c].expiresAt <= now

TypingHash(c) ==
  IF TypingExpired(c) THEN [u \in Users |-> NullTime] ELSE typing[c].at

\* redis.hset(key, userId, Date.now()); redis.expire(key, 10)
HSetExpire(c, userId) ==
  [typing EXCEPT ![c] = [at |-> [TypingHash(c) EXCEPT ![userId] = now],
                         expiresAt |-> now + TypingTtl]]

\* redis.hset(key, userId, Date.now()) alone: a key that is created by it
\* has no expiry, an existing key keeps the one it has.
HSet(c, userId) ==
  [typing EXCEPT ![c] = [at |-> [TypingHash(c) EXCEPT ![userId] = now],
                         expiresAt |-> IF TypingExpired(c) THEN NullTime
                                                           ELSE typing[c].expiresAt]]

\* redis.expire(key, 10) alone: nothing happens when the key does not exist.
Expire(c) ==
  IF \E u \in Users : TypingHash(c)[u] # NullTime
    THEN [typing EXCEPT ![c].expiresAt = now + TypingTtl]
    ELSE typing

\* A removal that removes nothing, for sensitivity checks.
HDelNothing(c, userId) == typing

\* redis.hdel(key, userId); a hash without fields does not exist.
HDel(c, userId) ==
  LET at == [TypingHash(c) EXCEPT ![userId] = NullTime]
  IN [typing EXCEPT ![c] =
        [at |-> at,
         expiresAt |-> IF \A u \in Users : at[u] = NullTime \/ TypingExpired(c)
                         THEN NullTime ELSE typing[c].expiresAt]]

\* typing.getTypingUsers: the fields younger than 5 seconds.
GetTypingUsers(c) ==
  {u \in Users : TypingHash(c)[u] # NullTime /\ now - TypingHash(c)[u] < TypingWindow}

\* Rooms of the socket server; every socket is in the room of its own id.
UserRoom(userId) == <<"user", userId>>
TenantRoom(tenantId) == <<"tenant", tenantId>>
ConversationRoom(conversationId) == <<"conversation", conversationId>>
SocketRoom(s) == <<"socket", s>>

\* A connection before its handshake.  pc is the position of the
\* connection handler (and later of the disconnect handler) of the socket.
NoSocket ==
  [state |-> "none", token |-> Null, userId |-> Null, tenantId |-> Null,
   pc |-> "idle", rooms |-> {}, listening |-> FALSE, openedAt |-> NullTime,
   closedAt |-> NullTime, claim |-> Null]

\* One emit: the packet is written to every connection that is in the room
\* and not excluded, behind the packets already written to it.
Deliver(out, room, except, event) ==
  [s \in SocketIds |->
     IF room \in sockets[s].rooms /\ s \notin except
       THEN Append(out[s], <<room, event>>)
       ELSE out[s]]

\* io.to(room).emit / socket.to(room).emit / socket.emit, one after another.
RECURSIVE DeliverAll(_, _)
DeliverAll(out, emits) ==
  IF emits = <<>> THEN out
  ELSE DeliverAll(Deliver(out, emits[1][1], emits[1][2], emits[1][3]), Tail(emits))

RECURSIVE LogAll(_, _)
LogAll(log, emits) ==
  IF emits = <<>> THEN log
  ELSE LogAll(Append(log, <<emits[1][1], emits[1][3]>>), Tail(emits))

Emit(emits) ==
  /\ outbound' = DeliverAll(outbound, emits)
  /\ emitted' = LogAll(emitted, emits)

\* The client opens a connection: socket.handshake.auth = { token, tenantId }.
\* userId is the subject a valid token carries and claim the tenant its
\* claims name (org_id or tenant_id), if any; tenantId is what the client
\* put into the handshake.
HandshakeAuth(s, token, userId, claim, tenantId) ==
  /\ sockets[s].state = "none"
  /\ sockets' = [sockets EXCEPT ![s] =
       [NoSocket EXCEPT !.state = "authenticating", !.token = token,
                        !.userId = userId, !.tenantId = tenantId,
                        !.claim = claim, !.openedAt = now]]
  /\ UNCHANGED <<store, now, calls, published, history, typing, node,
                 online, lastSeen, outbound, emitted>>

\* A handshake whose token names the tenant the client asks for.
Handshake(s, token, userId, tenantId) ==
  HandshakeAuth(s, token, userId, tenantId, tenantId)

\* claims.org_id || claims.tenant_id || socket.handshake.auth.tenantId
ResolveTenant(claim, tenantId) == IF claim # Null THEN claim ELSE tenantId

\* A middleware that only asks for a token, for the sensitivity check of C19.
TokenPresent(token) == token # "missing"

\* !token -> error; verifyToken throws -> error; !session.sub -> error.
TokenAccepted(token) == token = "valid"

\* io.use(...): next(new Error) closes the connection; next() lets the
\* connection handler run up to its first await: the socket joins its user
\* room and its tenant room and presence.setOnline is called.
Authenticate(s) ==
  /\ sockets[s].state = "authenticating"
  /\ IF TokenAccepted(sockets[s].token)
       THEN LET tenantId == ResolveTenant(sockets[s].claim, sockets[s].tenantId)
            IN sockets' = [sockets EXCEPT
                 ![s].state = "connected",
                 ![s].tenantId = tenantId,
                 ![s].rooms = {SocketRoom(s), UserRoom(sockets[s].userId)}
                    \cup (IF tenantId # Null THEN {TenantRoom(tenantId)} ELSE {}),
                 ![s].pc = "sadd"]
       ELSE sockets' = [sockets EXCEPT ![s].state = "closed", ![s].closedAt = now]
  /\ UNCHANGED <<store, now, calls, published, history, typing, node,
                 online, lastSeen, outbound, emitted>>

\* presence.setOnline: await redis.sadd(key, userId)
SetOnlineAdd(s) ==
  /\ sockets[s].pc = "sadd"
  /\ online' = [online EXCEPT ![OnlineKey(sockets[s].tenantId)] =
                  SAdd(@, sockets[s].userId)]
  /\ sockets' = [sockets EXCEPT ![s].pc = "stamp"]
  /\ UNCHANGED <<store, now, calls, published, history, typing, node,
                 lastSeen, outbound, emitted>>

\* presence.setOnline: await redis.set(lastSeen, Date.now()); then
\* socket.to(`tenant:${tenantId}`).emit('presence:online') if tenantId.
SetOnlineStamp(s) ==
  /\ sockets[s].pc = "stamp"
  /\ lastSeen' = [lastSeen EXCEPT ![sockets[s].userId] = now]
  /\ Emit(IF sockets[s].tenantId # Null
            THEN << <<TenantRoom(sockets[s].tenantId), {s},
                      Event("presence:online", "tenant", NoId, sockets[s].userId, NoId)>> >>
            ELSE <<>>)
  /\ sockets' = [sockets EXCEPT ![s].pc = "join"]
  /\ UNCHANGED <<store, now, calls, published, history, typing, node, online>>

\* await joinUserConversations(socket); after it the handler registers
\* the listeners of the socket, 'disconnect' among them.  A socket that
\* was closed in the meantime is in no room and receives nothing.
JoinUserConversations(s) ==
  /\ sockets[s].pc = "join"
  /\ sockets' = [sockets EXCEPT
       ![s].rooms = IF sockets[s].state = "connected"
                      THEN @ \cup {ConversationRoom(r.conversationId) :
                                     r \in {q \in participants : q.userId = sockets[s].userId}}
                      ELSE @,
       ![s].listening = TRUE,
       ![s].pc = "ready"]
  /\ UNCHANGED <<store, now, calls, published, history, typing, node,
                 online, lastSeen, outbound, emitted>>

\* The connection closes (client, transport or server side).  The socket
\* leaves its rooms; 'disconnect' is emitted to the listeners registered
\* at that moment, and the disconnect handler calls presence.setOffline.
\* Without a listener the connection handler goes on where it was.
Disconnect(s) ==
  /\ sockets[s].state = "connected"
  /\ sockets' = [sockets EXCEPT
       ![s].state = "closed",
       ![s].rooms = {},
       ![s].closedAt = now,
       ![s].pc = IF sockets[s].listening THEN "srem" ELSE @]
  /\ UNCHANGED <<store, now, calls, published, history, typing, node,
                 online, lastSeen, outbound, emitted>>

\* presence.setOffline: await redis.srem(key, userId)
SetOfflineRemove(s) ==
  /\ sockets[s].pc = "srem"
  /\ online' = [online EXCEPT ![OnlineKey(sockets[s].tenantId)] =
                  SRem(@, sockets[s].userId)]
  /\ sockets' = [sockets EXCEPT ![s].pc = "offstamp"]
  /\ UNCHANGED <<store, now, calls, published, history, typing, node,
                 lastSeen, outbound, emitted>>

\* presence.setOffline: await redis.set(lastSeen, Date.now()); then
\* socket.to(`tenant:${tenantId}`).emit('presence:offline') if tenantId.
SetOfflineStamp(s) ==
  /\ sockets[s].pc = "offstamp"
  /\ lastSeen' = [lastSeen EXCEPT ![sockets[s].userId] = now]
  /\ Emit(IF sockets[s].tenantId # Null
            THEN << <<TenantRoom(sockets[s].tenantId), {s},
                      Event("presence:offline", "tenant", NoId, sockets[s].userId, NoId)>> >>
            ELSE <<>>)
  /\ sockets' = [sockets EXCEPT ![s].pc = "done"]
  /\ UNCHANGED <<store, now, calls, published, history, typing, node, online>>

\* socket.on('presence:get'): presence:list with the size of the set read.
PresenceGet(s, limit) ==
  /\ sockets[s].state = "connected" /\ sockets[s].listening
  /\ Len(emitted) < limit
  /\ Emit(<< <<SocketRoom(s), {},
               Event("presence:list", "socket", NoId, sockets[s].userId,
                     Cardinality(GetOnlineUsers(sockets[s].tenantId)))>> >>)
  /\ UNCHANGED <<store, now, calls, published, history, typing, node, online, lastSeen, sockets>>

\* typing:{conversationId}: no hash field, no expiry set.
NoTyping == [at |-> [u \in Users |-> NullTime], expiresAt |-> NullTime]

\* The process after start() has run through with everything reachable.
Running ==
  [status |-> "running", bus |-> "up", database |-> "up", adapter |-> "redis"]

InitService ==
  /\ typing = [c \in TypingKeys |-> NoTyping]
  /\ node = Running

InitRealtime ==
  /\ online = [k \in OnlineKeys |-> {}]
  /\ lastSeen = [u \in Users |-> NullTime]
  /\ sockets = [s \in SocketIds |-> NoSocket]
  /\ outbound = [s \in SocketIds |-> <<>>]
  /\ emitted = <<>>
  /\ InitService

\* ------------------------------------------------------------------------
\* The store at start.  The tables outlive the process: the rule table is
\* empty (DEFAULT_RULES apply), seeded, or extended by an operator, and a
\* contact request may already be waiting for its answer.
\* ------------------------------------------------------------------------
Request(from, to, status, expiresAt) ==
  [fromUserId |-> from, toUserId |-> to, status |-> status,
   expiresAt |-> expiresAt, respondedAt |-> NullTime,
   ruleId |-> "cross-org-managers"]

ContactTables ==
  { <<>>, <<Request("u1", "u2", "PENDING", RequestExpiry)>> }

InitCommon ==
  /\ blockedUsers = {}
  /\ now = 0
  /\ calls = [p \in Procs |-> Idle]
  /\ published = [p \in Procs |-> {}]
  /\ history = <<>>
  /\ InitRealtime

\* ------------------------------------------------------------------------
\* Spec: conversation creation by two concurrent workers, next to the
\* routes that decide its permission (respond, block, unblock).
\* ------------------------------------------------------------------------
Init ==
  /\ InitCommon
  /\ conversations = <<>>
  /\ participants = {}
  /\ messages = <<>>
  /\ contactRequests \in ContactTables
  /\ messagingRules = SeedRules

Next ==
  \/ \E p \in Procs, c \in CreatorContexts, t \in ConversationTypes,
        ids \in ParticipantLists : CreatePermission(p, c, t, ids)
       /\ UNCHANGED realtime
  \/ \E p \in Procs : CreateProbe(p) /\ UNCHANGED realtime
  \/ \E p \in Procs : CreateInsert(p) /\ UNCHANGED realtime
  \/ \E p \in Procs, u \in BlockUsers, a \in Responses : RespondFind(p, u, 1, a)
       /\ UNCHANGED realtime
  \/ \E p \in Procs : RespondUpdate(p) /\ UNCHANGED realtime

Spec == Init /\ [][Next]_vars

\* ------------------------------------------------------------------------
\* SpecPerm: the permission engine over the tables the contact routes
\* write (blocks, answers to contact requests), as time passes.
\* ------------------------------------------------------------------------
InitPerm ==
  /\ InitCommon
  /\ conversations = <<>>
  /\ participants = {}
  /\ messages = <<>>
  /\ contactRequests \in ContactTables
  /\ messagingRules \in RuleTables

NextPerm ==
  \/ \E p \in Procs, u \in BlockUsers, a \in Responses : RespondFind(p, u, 1, a)
       /\ UNCHANGED realtime
  \/ \E p \in Procs : RespondUpdate(p) /\ UNCHANGED realtime
  \/ \E p \in Procs, u \in BlockUsers, b \in BlockUsers : BlockUser(p, u, b)
       /\ UNCHANGED realtime
  \/ \E p \in Procs, u \in BlockUsers, b \in BlockUsers : UnblockUser(p, u, b)
       /\ UNCHANGED realtime
  \/ \E q \in PermissionQueries : CheckCanSend(1, q[1], q[2])
       /\ UNCHANGED realtime
  \/ Tick(MaxTime) /\ UNCHANGED realtime

SpecPerm == InitPerm /\ [][NextPerm]_vars

\* ------------------------------------------------------------------------
\* Stores that createConversation leaves behind, used as starting points.
\* ------------------------------------------------------------------------
Row(c, u, t, role) ==
  [conversationId |-> c, userId |-> u, tenantId |-> t, role |-> role,
   lastReadAt |-> NullTime]

Conversation(type) == [type |-> type, createdAt |-> 0, updatedAt |-> 0]

\* A message deleted before the process started (nothing in the service
\* sets deletedAt; tombstones come with the store).
Tombstone(c, u) ==
  [conversationId |-> c, senderId |-> u, content |-> 1, replyToId |-> NoId,
   createdAt |-> 0, deletedAt |-> 0]

\* createConversation(u1@t1, SUPPORT, [u2]); createConversation(u2@t2, SUPPORT, [u1])
InitTwoSupport ==
  /\ conversations = <<Conversation("SUPPORT"), Conversation("SUPPORT")>>
  /\ participants = { Row(1, "u1", "t1", "OWNER"), Row(1, "u2", Null, "MEMBER"),
                      Row(2, "u2", "t2", "OWNER"), Row(2, "u1", Null, "MEMBER") }
  /\ contactRequests = <<>>

\* The request u1 -> u2 accepted, then createConversation(u1@t1, DIRECT, [u2]).
InitDirect ==
  /\ conversations = <<Conversation("DIRECT")>>
  /\ participants = { Row(1, "u1", "t1", "OWNER"), Row(1, "u2", Null, "MEMBER") }
  /\ contactRequests =
       <<[Request("u1", "u2", "ACCEPTED", RequestExpiry) EXCEPT !.respondedAt = 0]>>

\* ------------------------------------------------------------------------
\* SpecSend: sendMessage of one worker, on both paths, with store
\* writes that can fail, next to markAsRead and getUnreadCount.
\* ------------------------------------------------------------------------
InitSend ==
  /\ InitCommon
  /\ InitTwoSupport
  /\ messages \in { <<>>, <<Tombstone(1, "u2")>> }
  /\ messagingRules = SeedRules

NextSend ==
  \/ \E i \in SendInputs : SendCheck(1, i[1], i[2], i[3], MaxMessages)
       /\ UNCHANGED realtime
  \/ SendInsertMessage(1, BOOLEAN) /\ UNCHANGED realtime
  \/ SendTouchConversation(1, BOOLEAN) /\ UNCHANGED realtime
  \/ SendTouchSender(1, BOOLEAN, FALSE) /\ UNCHANGED realtime
  \/ SendEmit(1) /\ UNCHANGED realtime
  \/ SendFanout(1) /\ UNCHANGED realtime
  \/ \E c \in {1, 2} : MarkAsRead(1, "u1", c, FALSE) /\ UNCHANGED realtime
  \/ \E u \in Users : UnreadCount(1, u) /\ UNCHANGED realtime
  \/ Tick(MaxTime) /\ UNCHANGED realtime

SpecSend == InitSend /\ [][NextSend]_vars

\* ------------------------------------------------------------------------
\* SpecUnread: one sequential client of the service in the DIRECT
\* conversation of u1 and u2: sends of either user, markAsRead and
\* getUnreadCount of u1; history records the completed sends and reads.
\* ------------------------------------------------------------------------
InitUnread ==
  /\ InitCommon
  /\ InitDirect
  /\ messages = <<>>
  /\ messagingRules = SeedRules

NextUnread ==
  \/ /\ Len(history) < MaxScenarioOps
     /\ \E c \in {Ctx("u1", "t1", Null, Null), Ctx("u2", "t2", Null, Null)} :
          SendCheck(1, c, "request", 1, MaxScenarioOps)
     /\ UNCHANGED realtime
  \/ SendInsertMessage(1, {TRUE}) /\ UNCHANGED realtime
  \/ SendTouchConversation(1, {TRUE}) /\ UNCHANGED realtime
  \/ SendTouchSender(1, {TRUE}, TRUE) /\ UNCHANGED realtime
  \/ /\ Len(history) < MaxScenarioOps
     /\ MarkAsRead(1, "u1", 1, TRUE)
     /\ UNCHANGED realtime
  \/ UnreadCount(1, "u1") /\ UNCHANGED realtime
  \/ Tick(MaxScenarioTime) /\ UNCHANGED realtime

SpecUnread == InitUnread /\ [][NextUnread]_vars

\* ------------------------------------------------------------------------
\* SpecRate: owner u1 of t1 sends to owner u2 of t2, on both paths, in a
\* conversation the two share (the DIRECT one of an approved contact, or a
\* SUPPORT one without any contact request), and asks canSendMessage.
\* ------------------------------------------------------------------------
InitRate ==
  /\ InitCommon
  /\ InitDirect \/ InitTwoSupport
  /\ messages = <<>>
  /\ messagingRules = SeedRules

NextRate ==
  \/ \E path \in Paths : SendCheck(1, Ctx("u1", "t1", Null, Null), path, 1, MaxRateMessages)
       /\ UNCHANGED realtime
  \/ SendInsertMessage(1, {TRUE}) /\ UNCHANGED realtime
  \/ SendTouchConversation(1, {TRUE}) /\ UNCHANGED realtime
  \/ SendTouchSender(1, {TRUE}, FALSE) /\ UNCHANGED realtime
  \/ SendEmit(1) /\ UNCHANGED realtime
  \/ SendFanout(1) /\ UNCHANGED realtime
  \/ CheckCanSend(1, Ctx("u1", "t1", "owner", Null), Ctx("u2", "t2", "owner", Null))
       /\ UNCHANGED realtime
  \/ Tick(MaxTime) /\ UNCHANGED realtime

SpecRate == InitRate /\ [][NextRate]_vars

\* ------------------------------------------------------------------------
\* SpecMatch: matchesRule applied to one rule, a sender and a recipient
\* drawn from every combination of present and absent tenantId, tenantRole
\* and platformRole.  calls[1].ctx is the sender, calls[2].ctx the
\* recipient, and the rule is the one row of messagingRules.
\* ------------------------------------------------------------------------
TenantIds == {Null, "t1", "t2"}
TenantRoles == {Null, "owner", "member"}
PlatformRoles == {Null, "platform_support"}
Scopes == {"tenant", "platform"}
RoleSets == { {"owner"}, {"member", "platform_support"} }

MatchContexts(u) ==
  {Ctx(u, t, tr, pr) : t \in TenantIds, tr \in TenantRoles, pr \in PlatformRoles}

MatchRules ==
  {Rule("rule", ss, sr, ts, tr, FALSE, NoLimit, TRUE, 1) :
     ss \in Scopes, sr \in RoleSets, ts \in Scopes, tr \in RoleSets}

TheRule == CHOOSE r \in messagingRules : TRUE

InitMatch ==
  /\ InitRealtime
  /\ blockedUsers = {}
  /\ now = 0
  /\ published = [p \in Procs |-> {}]
  /\ history = <<>>
  /\ conversations = <<>>
  /\ participants = {}
  /\ messages = <<>>
  /\ contactRequests = <<>>
  /\ messagingRules \in {{r} : r \in MatchRules}
  /\ \E s \in MatchContexts("u1"), r \in MatchContexts("u2") :
       calls = [p \in Procs |-> [Idle EXCEPT !.ctx = IF p = 1 THEN s ELSE r]]

\* this.matchesRule(rule, sender, recipient)
ApplyMatchesRule ==
  /\ calls[1].op = "none"
  /\ calls' = [calls EXCEPT ![1].op = "match", ![1].pc = "done",
       ![1].result = IF MatchesRule(TheRule, calls[1].ctx, calls[2].ctx)
                       THEN "match" ELSE "no-match"]
  /\ UNCHANGED <<store, now, published, history>>

NextMatch == ApplyMatchesRule /\ UNCHANGED realtime

SpecMatch == InitMatch /\ [][NextMatch]_vars

\* ------------------------------------------------------------------------
\* SpecRequest: POST /contacts/requests by two concurrent workers, next to
\* the respond and block routes.
\* ------------------------------------------------------------------------
InitRequest ==
  /\ InitCommon
  /\ conversations = <<>>
  /\ participants = {}
  /\ messages = <<>>
  /\ contactRequests \in ContactTables
  /\ messagingRules \in RuleTables

NextRequest ==
  \/ \E p \in Procs, user \in CreatorContexts, to \in BlockUsers :
       PostContactRequest(p, user, to) /\ UNCHANGED realtime
  \/ \E p \in Procs, u \in BlockUsers, a \in Responses : RespondFind(p, u, 1, a)
       /\ UNCHANGED realtime
  \/ \E p \in Procs : RespondUpdate(p) /\ UNCHANGED realtime
  \/ \E p \in Procs, u \in BlockUsers, b \in BlockUsers : BlockUser(p, u, b)
       /\ UNCHANGED realtime
  \/ Tick(MaxTime) /\ UNCHANGED realtime

SpecRequest == InitRequest /\ [][NextRequest]_vars

\* ------------------------------------------------------------------------
\* SpecSession: two connections, each from its handshake to its close,
\* with the presence store behind them.  u2 connects as a member of t1 or
\* without a tenant.
\* ------------------------------------------------------------------------
Handshakes == { <<1, "u1", "t1">>, <<2, "u2", "t1">>, <<2, "u2", Null>> }

InitSession ==
  /\ InitCommon
  /\ InitTwoSupport
  /\ messages = <<>>
  /\ messagingRules = {}

NextSession ==
  \/ \E h \in Handshakes, token \in Tokens : Handshake(h[1], token, h[2], h[3])
  \/ \E s \in SocketIds : Authenticate(s)
  \/ \E s \in SocketIds : SetOnlineAdd(s)
  \/ \E s \in SocketIds : SetOnlineStamp(s)
  \/ \E s \in SocketIds : JoinUserConversations(s)
  \/ \E s \in SocketIds : Disconnect(s)
  \/ \E s \in SocketIds : SetOfflineRemove(s)
  \/ \E s \in SocketIds : SetOfflineStamp(s)
  \/ \E s \in SocketIds : PresenceGet(s, MaxPackets)
  \/ Tick(MaxTime) /\ UNCHANGED realtime

SpecSession == InitSession /\ [][NextSession]_vars

\* ------------------------------------------------------------------------
\* SpecStream: the session of u1 sends message:send m1 and then m2 into
\* conversation 1; handler 1 runs for m1, handler 2 for m2.  Both users
\* are connected and subscribed: u1 connected first, then u2.
\* ------------------------------------------------------------------------
ReadySocket(s, userId, tenantId) ==
  [NoSocket EXCEPT
     !.state = "connected", !.token = "valid", !.userId = userId,
     !.tenantId = tenantId, !.claim = tenantId, !.pc = "ready", !.listening = TRUE, !.openedAt = 0,
     !.rooms = {SocketRoom(s), UserRoom(userId), TenantRoom(tenantId),
                ConversationRoom(1), ConversationRoom(2)}]

\* The presence store and the wire after setOnline of u1 and then of u2.
BothOnline ==
  /\ online = [k \in OnlineKeys |-> IF k = "t1" THEN {"u1", "u2"} ELSE {}]
  /\ lastSeen = [u \in Users |-> IF u = "u3" THEN NullTime ELSE 0]
  /\ emitted =
       << <<TenantRoom("t1"), Event("presence:online", "tenant", NoId, "u1", NoId)>>,
          <<TenantRoom("t1"), Event("presence:online", "tenant", NoId, "u2", NoId)>> >>
  /\ outbound = [s \in SocketIds |->
                   IF s = 1 THEN <<emitted[2]>> ELSE <<>>]
  /\ InitService

BothConnected ==
  /\ BothOnline
  /\ sockets = [s \in SocketIds |->
                  IF s = 1 THEN ReadySocket(1, "u1", "t1")
                           ELSE ReadySocket(2, "u2", "t1")]

InitStream ==
  /\ blockedUsers = {}
  /\ now = 0
  /\ calls = [p \in Procs |-> Idle]
  /\ published = [p \in Procs |-> {}]
  /\ history = <<>>
  /\ InitTwoSupport
  /\ messages = <<>>
  /\ messagingRules = {}
  /\ BothConnected

\* A broadcast that leaves out the sending socket (socket.to in place of
\* io.to), for the sensitivity check of C17.
AllButSender(s) == {s}

\* io.to(room): no connection is left out.
EveryoneInRoom(s) == {}

\* for (const p of participants): the rows one after another.
RECURSIVE InSomeOrder(_)
InSomeOrder(rows) ==
  IF rows = {} THEN <<>>
  ELSE LET r == CHOOSE x \in rows : TRUE
       IN <<r>> \o InSomeOrder(rows \ {r})

\* socket.on('message:send') of socket s up to the first await of
\* sendMessage.  The listener is async: it returns at the await, and the
\* next packet of the socket is dispatched while it is suspended.
MessageSend(p, s, conversationId) ==
  /\ sockets[s].state = "connected" /\ sockets[s].listening
  /\ SendCheck(p, Ctx(sockets[s].userId, sockets[s].tenantId, Null, Null),
               "session", conversationId, MaxMessages)
  /\ UNCHANGED realtime

\* io.to(`conversation:${id}`).emit('message:new') on the wire.
MessageNewToConversation(p, s) ==
  /\ SendEmit(p)
  /\ Emit(<< <<ConversationRoom(calls[p].conv), EveryoneInRoom(s),
               Event("message:new", "conversation", calls[p].conv, Null, calls[p].msg)>> >>)
  /\ UNCHANGED <<online, lastSeen, sockets, typing, node>>

\* message:new to user:{id} of every other participant, then message:sent
\* to the socket itself.
FanoutEmits(p, s) ==
  LET others == InSomeOrder(FanoutTargets(calls[p].conv, calls[p].ctx.userId))
  IN [i \in 1..Len(others) |->
        <<UserRoom(others[i].userId), {},
          Event("message:new", "user", calls[p].conv, others[i].userId,
                calls[p].msg)>>]
     \o << <<SocketRoom(s), {},
             Event("message:sent", "socket", calls[p].conv,
                   calls[p].ctx.userId, calls[p].msg)>> >>

MessageNewToUsers(p, s) ==
  /\ SendFanout(p)
  /\ Emit(FanoutEmits(p, s))
  /\ UNCHANGED <<online, lastSeen, sockets, typing, node>>

NextStream ==
  \/ /\ calls[1].op = "none"
     /\ MessageSend(1, 1, 1)
  \/ /\ calls[1].op = "send" /\ calls[2].op = "none"
     /\ MessageSend(2, 1, 1)
  \/ \E p \in Procs : SendInsertMessage(p, {TRUE}) /\ UNCHANGED realtime
  \/ \E p \in Procs : SendTouchConversation(p, {TRUE}) /\ UNCHANGED realtime
  \/ \E p \in Procs : SendTouchSender(p, {TRUE}, FALSE) /\ UNCHANGED realtime
  \/ \E p \in Procs : MessageNewToConversation(p, 1)
  \/ \E p \in Procs : MessageNewToUsers(p, 1)
  \/ Tick(MaxTime) /\ UNCHANGED realtime

SpecStream == InitStream /\ [][NextStream]_vars

\* ------------------------------------------------------------------------
\* SpecReconnect: two connections of the same user u1 in tenant t1, side
\* by side or one after the other (a reconnect).
\* ------------------------------------------------------------------------
SameUserHandshakes == { <<1, "u1", "t1">>, <<2, "u1", "t1">> }

NextReconnect ==
  \/ \E h \in SameUserHandshakes : Handshake(h[1], "valid", h[2], h[3])
  \/ \E s \in SocketIds : Authenticate(s)
  \/ \E s \in SocketIds : SetOnlineAdd(s)
  \/ \E s \in SocketIds : SetOnlineStamp(s)
  \/ \E s \in SocketIds : JoinUserConversations(s)
  \/ \E s \in SocketIds : Disconnect(s)
  \/ \E s \in SocketIds : SetOfflineRemove(s)
  \/ \E s \in SocketIds : SetOfflineStamp(s)
  \/ \E s \in SocketIds : PresenceGet(s, MaxPackets)
  \/ Tick(MaxTime) /\ UNCHANGED realtime

SpecReconnect == InitSession /\ [][NextReconnect]_vars

\* ------------------------------------------------------------------------
\* SpecDeliver: message:send of the session of u1 into conversation 1,
\* with a presence store that can fail, next to typing:start of both users.
\* u2 is connected but its connection handler has not yet joined the
\* conversation rooms.
\* ------------------------------------------------------------------------
JoiningSocket(s, userId, tenantId) ==
  [ReadySocket(s, userId, tenantId) EXCEPT
     !.pc = "join", !.listening = FALSE,
     !.rooms = {SocketRoom(s), UserRoom(userId), TenantRoom(tenantId)}]

InitDeliver ==
  /\ blockedUsers = {}
  /\ now = 0
  /\ calls = [p \in Procs |-> Idle]
  /\ published = [p \in Procs |-> {}]
  /\ history = <<>>
  /\ InitTwoSupport
  /\ messages = <<>>
  /\ messagingRules = {}
  /\ BothOnline
  /\ sockets = [s \in SocketIds |->
                  IF s = 1 THEN ReadySocket(1, "u1", "t1")
                           ELSE JoiningSocket(2, "u2", "t1")]

\* catch (error) { socket.emit('message:error') } on the wire.
WireErrors(s, call) ==
  IF call.pc = "done" /\ call.result \in {"NotParticipant", "StoreError", "BusError"}
    THEN << <<SocketRoom(s), {},
              Event("message:error", "socket", call.conv, call.ctx.userId, NoId)>> >>
    ELSE <<>>

\* prisma.message.create of the session handler; its throw is caught.
SessionInsertMessage(p, s, outcomes) ==
  /\ SendInsertMessage(p, outcomes)
  /\ Emit(WireErrors(s, calls'[p]))
  /\ UNCHANGED <<online, lastSeen, sockets, typing, node>>

\* await getParticipants: presence.isOnline and presence.getLastSeen of
\* every participant; a rejected Redis command throws into the catch.
\* Otherwise the user-room emits and message:sent follow.
SessionFanout(p, s, outcomes) ==
  /\ calls[p].op = "send" /\ calls[p].pc = "fanout"
  /\ \E ok \in outcomes :
       IF ok
         THEN /\ SendFanoutThen(p, "typing", "pending")
              /\ Emit(FanoutEmits(p, s))
         ELSE /\ SendFails(p, "BusError")
              /\ Emit(WireErrors(s, calls'[p]))
              /\ UNCHANGED <<store, now, history>>
  /\ UNCHANGED <<online, lastSeen, sockets, typing, node>>

\* await typing.setTyping(conversationId, userId, false); its throw is
\* caught like every other.
ClearTyping(p, s, outcomes) ==
  /\ calls[p].op = "send" /\ calls[p].pc = "typing"
  /\ \E ok \in outcomes :
       IF ok
         THEN /\ typing' = HDel(calls[p].conv, calls[p].ctx.userId)
              /\ calls' = [calls EXCEPT ![p].pc = "done", ![p].result = "ok"]
              /\ UNCHANGED <<published, outbound, emitted>>
         ELSE /\ SendFails(p, "BusError")
              /\ Emit(WireErrors(s, calls'[p]))
              /\ UNCHANGED typing
  /\ UNCHANGED <<store, now, history, online, lastSeen, sockets, node>>

\* socket.on('typing:start'): participant check, setTyping(true),
\* typing:update to the others in the conversation room.
TypingStart(s, conversationId) ==
  /\ sockets[s].state = "connected" /\ sockets[s].listening
  /\ sockets[s].userId \notin GetTypingUsers(conversationId)
  /\ IF IsParticipant(sockets[s].userId, conversationId)
       THEN /\ typing' = HSetExpire(conversationId, sockets[s].userId)
            /\ Emit(<< <<ConversationRoom(conversationId), {s},
                         Event("typing:update", "conversation", conversationId,
                               sockets[s].userId, NoId)>> >>)
       ELSE UNCHANGED <<typing, outbound, emitted>>
  /\ UNCHANGED <<store, now, calls, published, history,
                 online, lastSeen, sockets, node>>

NextDeliver ==
  \/ /\ Len(emitted) < MaxWire
     /\ MessageSend(1, 1, 1)
  \/ SessionInsertMessage(1, 1, BOOLEAN)
  \/ SendTouchConversation(1, {TRUE}) /\ UNCHANGED realtime
  \/ SendTouchSender(1, {TRUE}, FALSE) /\ UNCHANGED realtime
  \/ MessageNewToConversation(1, 1)
  \/ SessionFanout(1, 1, BOOLEAN)
  \/ ClearTyping(1, 1, BOOLEAN)
  \/ \E s \in SocketIds : TypingStart(s, 1)
  \/ \E s \in SocketIds : JoinUserConversations(s)
  \/ Tick(MaxTime) /\ UNCHANGED realtime

SpecDeliver == InitDeliver /\ [][NextDeliver]_vars

\* ------------------------------------------------------------------------
\* SpecStartup: start() of the process with a bus (Redis) and a database
\* that can or cannot be reached, and the sessions it serves once it runs.
\* ------------------------------------------------------------------------
Reachability == {"up", "down"}

InitStartup ==
  /\ blockedUsers = {}
  /\ now = 0
  /\ calls = [p \in Procs |-> Idle]
  /\ published = [p \in Procs |-> {}]
  /\ history = <<>>
  /\ InitTwoSupport
  /\ messages = <<>>
  /\ messagingRules = {}
  /\ online = [k \in OnlineKeys |-> {}]
  /\ lastSeen = [u \in Users |-> NullTime]
  /\ sockets = [s \in SocketIds |-> NoSocket]
  /\ outbound = [s \in SocketIds |-> <<>>]
  /\ emitted = <<>>
  /\ typing = [c \in TypingKeys |-> NoTyping]
  /\ \E b \in Reachability, d \in Reachability :
       node = [status |-> "starting", bus |-> b, database |-> d, adapter |-> "none"]

\* One step of start(): an await that resolves leads on, one that rejects
\* leads into catch (err) { process.exit(1) }.
StartStep(from, ok, to) ==
  /\ node.status = from
  /\ node' = [node EXCEPT !.status = IF ok THEN to ELSE "exited"]
  /\ UNCHANGED <<store, now, calls, published, history,
                 online, lastSeen, sockets, outbound, emitted, typing>>

\* await redis.connect(): the client is lazyConnect, the promise resolves
\* on 'ready' and rejects when the connection attempt is closed.
ConnectRedis == StartStep("starting", node.bus = "up", "redis")

\* await prisma.$connect()
ConnectDatabase == StartStep("redis", node.database = "up", "database")

\* await fastify.listen({ port, host })
Listen(outcomes) == \E ok \in outcomes : StartStep("database", ok, "listening")

\* setupSocketIO: the adapter clients are constructed inside try/catch;
\* new Redis(url) connects in the background and does not throw.
SetupSocketIO ==
  /\ node.status = "listening"
  /\ node' = [node EXCEPT !.status = "running", !.adapter = "redis"]
  /\ UNCHANGED <<store, now, calls, published, history,
                 online, lastSeen, sockets, outbound, emitted, typing>>

Serving == node.status = "running"

NextStartup ==
  \/ ConnectRedis
  \/ ConnectDatabase
  \/ Listen(BOOLEAN)
  \/ SetupSocketIO
  \/ /\ Serving
     /\ \E h \in Handshakes, token \in Tokens : Handshake(h[1], token, h[2], h[3])
  \/ /\ Serving
     /\ \E s \in SocketIds : Authenticate(s)
  \/ /\ Serving
     /\ \E s \in SocketIds : SetOnlineAdd(s)
  \/ /\ Serving
     /\ \E s \in SocketIds : SetOnlineStamp(s)
  \/ /\ Serving
     /\ \E s \in SocketIds : JoinUserConversations(s)
  \/ /\ Serving
     /\ \E s \in SocketIds : Disconnect(s)
  \/ /\ Serving
     /\ \E s \in SocketIds : SetOfflineRemove(s)
  \/ /\ Serving
     /\ \E s \in SocketIds : SetOfflineStamp(s)

SpecStartup == InitStartup /\ [][NextStartup]_vars

\* ------------------------------------------------------------------------
\* SpecTouch: sendMessage of two workers into conversation 1, with the
\* update of updatedAt seen as the store sees it.
\* ------------------------------------------------------------------------
InitTouch ==
  /\ InitCommon
  /\ InitTwoSupport
  /\ messages = <<>>
  /\ messagingRules = {}

NextTouch ==
  \/ \E p \in Procs, c \in {Ctx("u1", "t1", Null, Null), Ctx("u2", "t2", Null, Null)} :
       SendCheck(p, c, "request", 1, MaxMessages) /\ UNCHANGED realtime
  \/ \E p \in Procs : SendInsertMessage(p, {TRUE}) /\ UNCHANGED realtime
  \/ \E p \in Procs : TouchConversationStamp(p) /\ UNCHANGED realtime
  \/ \E p \in Procs : TouchConversationWrite(p) /\ UNCHANGED realtime
  \/ \E p \in Procs : SendTouchSender(p, {TRUE}, FALSE) /\ UNCHANGED realtime
  \/ Tick(MaxTime) /\ UNCHANGED realtime

SpecTouch == InitTouch /\ [][NextTouch]_vars

\* ------------------------------------------------------------------------
\* SpecContent: one sequential client sends into the two conversations on
\* both paths, with contents of every length class and replies to the
\* messages that exist, and reads the conversations back.
\* ------------------------------------------------------------------------
ContentLengths == {0, 1, MaxContent + 1}
Senders == {Ctx("u1", "t1", Null, Null), Ctx("u2", "t2", Null, Null)}

InitContent ==
  /\ InitCommon
  /\ InitTwoSupport
  /\ messages \in { <<>>, <<Tombstone(1, "u2")>> }
  /\ messagingRules = {}

NextContent ==
  \/ \E u \in Senders, c \in {1, 2}, n \in ContentLengths, r \in MsgIds \cup {NoId} :
       PostMessage(1, u, c, MaxMessages, n, r) /\ UNCHANGED realtime
  \/ \E u \in Senders, c \in {1, 2}, n \in ContentLengths, r \in MsgIds \cup {NoId} :
       SendCheckInput(1, u, "session", c, MaxMessages, n, r) /\ UNCHANGED realtime
  \/ SendInsertMessage(1, {TRUE}) /\ UNCHANGED realtime
  \/ SendTouchConversation(1, {TRUE}) /\ UNCHANGED realtime
  \/ SendTouchSender(1, {TRUE}, FALSE) /\ UNCHANGED realtime
  \/ SendEmit(1) /\ UNCHANGED realtime
  \/ SendFanout(1) /\ UNCHANGED realtime
  \/ \E u \in Users, c \in {1, 2}, limit \in {1, 2} :
       GetMessages(1, u, c, limit, NullTime) /\ UNCHANGED realtime
  \/ Tick(MaxTime) /\ UNCHANGED realtime

SpecContent == InitContent /\ [][NextContent]_vars

\* ------------------------------------------------------------------------
\* SpecCreate: Spec with every shape of participantIds: none, the creator
\* itself, one other user, two others, the same user twice.
\* ------------------------------------------------------------------------
AllParticipantLists ==
  ParticipantLists \cup { <<>>, <<"u2", "u2">> }

NextCreate ==
  \/ \E p \in Procs, c \in CreatorContexts, t \in ConversationTypes,
        ids \in AllParticipantLists : CreatePermission(p, c, t, ids)
       /\ UNCHANGED realtime
  \/ \E p \in Procs : CreateProbe(p) /\ UNCHANGED realtime
  \/ \E p \in Procs : CreateInsert(p) /\ UNCHANGED realtime
  \/ \E p \in Procs, u \in BlockUsers, a \in Responses : RespondFind(p, u, 1, a)
       /\ UNCHANGED realtime
  \/ \E p \in Procs : RespondUpdate(p) /\ UNCHANGED realtime

SpecCreate == Init /\ [][NextCreate]_vars

\* ------------------------------------------------------------------------
\* SpecBlock: u1 and u2 hold a DIRECT conversation; either blocks or
\* unblocks the other, sends into the conversation on both paths, and
\* creates further conversations.
\* ------------------------------------------------------------------------
InitBlock ==
  /\ InitCommon
  /\ InitDirect
  /\ messages = <<>>
  /\ messagingRules = SeedRules

NextBlock ==
  \/ \E u \in BlockUsers, b \in BlockUsers : BlockUser(1, u, b) /\ UNCHANGED realtime
  \/ \E u \in BlockUsers, b \in BlockUsers : UnblockUser(1, u, b) /\ UNCHANGED realtime
  \/ \E u \in Senders, path \in Paths : SendCheck(1, u, path, 1, MaxMessages)
       /\ UNCHANGED realtime
  \/ SendInsertMessage(1, {TRUE}) /\ UNCHANGED realtime
  \/ SendTouchConversation(1, {TRUE}) /\ UNCHANGED realtime
  \/ SendTouchSender(1, {TRUE}, FALSE) /\ UNCHANGED realtime
  \/ SendEmit(1) /\ UNCHANGED realtime
  \/ SendFanout(1) /\ UNCHANGED realtime
  \/ \E c \in CreatorContexts, t \in ConversationTypes, ids \in ParticipantLists :
       CreatePermission(1, c, t, ids) /\ UNCHANGED realtime
  \/ CreateProbe(1) /\ UNCHANGED realtime
  \/ CreateInsert(1) /\ UNCHANGED realtime

SpecBlock == InitBlock /\ [][NextBlock]_vars

\* ------------------------------------------------------------------------
\* SpecGate: the conversation-scoped session events of a participant (u1,
\* socket 1) and of a user who is in no conversation (u3, socket 2).
\* ------------------------------------------------------------------------
\* A connection whose handler has run through: it is in the rooms of the
\* conversations its user takes part in.
GateSocket(s, userId, tenantId) ==
  [ReadySocket(s, userId, tenantId) EXCEPT
     !.rooms = {SocketRoom(s), UserRoom(userId), TenantRoom(tenantId)}
               \cup {ConversationRoom(r.conversationId) :
                       r \in {q \in participants : q.userId = userId}}]

InitGate ==
  /\ blockedUsers = {}
  /\ now = 0
  /\ calls = [p \in Procs |-> Idle]
  /\ published = [p \in Procs |-> {}]
  /\ history = <<>>
  /\ InitTwoSupport
  /\ messages = <<>>
  /\ messagingRules = {}
  /\ online = [k \in OnlineKeys |-> IF k = "t1" THEN {"u1", "u3"} ELSE {}]
  /\ lastSeen = [u \in Users |-> IF u = "u2" THEN NullTime ELSE 0]
  /\ emitted = <<>>
  /\ outbound = [s \in SocketIds |-> <<>>]
  /\ InitService
  /\ sockets = [s \in SocketIds |->
                  IF s = 1 THEN GateSocket(1, "u1", "t1")
                           ELSE GateSocket(2, "u3", "t1")]

\* socket.on('typing:stop'): setTyping(false), typing:update to the others
\* in the conversation room.
TypingStop(s, conversationId) ==
  /\ sockets[s].state = "connected" /\ sockets[s].listening
  /\ typing' = HDel(conversationId, sockets[s].userId)
  /\ Emit(<< <<ConversationRoom(conversationId), {s},
               Event("typing:update", "conversation", conversationId,
                     sockets[s].userId, NoId)>> >>)
  /\ UNCHANGED <<store, now, calls, published, history,
                 online, lastSeen, sockets, node>>

\* socket.on('messages:read'): markAsRead, whose throw for a missing row
\* is caught, then messages:read to the others in the conversation room.
MessagesRead(s, conversationId) ==
  /\ sockets[s].state = "connected" /\ sockets[s].listening
  /\ IF IsParticipant(sockets[s].userId, conversationId)
       THEN /\ participants' = SetLastReadAt(participants, conversationId,
                                             sockets[s].userId, now)
            /\ Emit(<< <<ConversationRoom(conversationId), {s},
                         Event("messages:read", "conversation", conversationId,
                               sockets[s].userId, NoId)>> >>)
       ELSE UNCHANGED <<participants, outbound, emitted>>
  /\ UNCHANGED <<conversations, messages, contactRequests, blockedUsers,
                 messagingRules, now, calls, published, history,
                 online, lastSeen, sockets, typing, node>>

\* socket.on('conversation:join'): participant check, socket.join,
\* conversation:joined or conversation:error to the socket itself.
ConversationJoin(s, conversationId) ==
  /\ sockets[s].state = "connected" /\ sockets[s].listening
  /\ IF IsParticipant(sockets[s].userId, conversationId)
       THEN /\ sockets' = [sockets EXCEPT
                 ![s].rooms = @ \cup {ConversationRoom(conversationId)}]
            /\ Emit(<< <<SocketRoom(s), {},
                         Event("conversation:joined", "socket", conversationId,
                               sockets[s].userId, NoId)>> >>)
       ELSE /\ UNCHANGED sockets
            /\ Emit(<< <<SocketRoom(s), {},
                         Event("conversation:error", "socket", conversationId,
                               sockets[s].userId, NoId)>> >>)
  /\ UNCHANGED <<store, now, calls, published, history,
                 online, lastSeen, typing, node>>

\* socket.on('conversation:leave')
ConversationLeave(s, conversationId) ==
  /\ sockets[s].state = "connected" /\ sockets[s].listening
  /\ sockets' = [sockets EXCEPT
       ![s].rooms = @ \ {ConversationRoom(conversationId)}]
  /\ Emit(<< <<SocketRoom(s), {},
               Event("conversation:left", "socket", conversationId,
                     sockets[s].userId, NoId)>> >>)
  /\ UNCHANGED <<store, now, calls, published, history,
                 online, lastSeen, typing, node>>

NextGate ==
  \/ /\ Len(emitted) < MaxWire
     /\ \E s \in SocketIds : TypingStart(s, 1)
  \/ /\ Len(emitted) < MaxWire
     /\ \E s \in SocketIds : TypingStop(s, 1)
  \/ /\ Len(emitted) < MaxWire
     /\ \E s \in SocketIds : MessagesRead(s, 1)
  \/ /\ Len(emitted) < MaxWire
     /\ \E s \in SocketIds : ConversationJoin(s, 1)
  \/ /\ Len(emitted) < MaxWire
     /\ \E s \in SocketIds : ConversationLeave(s, 1)
  \/ Tick(MaxTime) /\ UNCHANGED realtime

SpecGate == InitGate /\ [][NextGate]_vars

\* ------------------------------------------------------------------------
\* SpecRules: SpecPerm over rule tables in which an operator has switched
\* rules off: every seed rule, the only rule of the table, or one of the
\* seed rules.
\* ------------------------------------------------------------------------
Inactive(rule) == [rule EXCEPT !.isActive = FALSE]

SwitchedOffTables ==
  { {Inactive(r) : r \in SeedRules},
    {Inactive(CrossOrgManagers)},
    (SeedRules \ {CrossOrgManagers}) \cup {Inactive(CrossOrgManagers)},
    SeedRules }

InitRules ==
  /\ InitCommon
  /\ conversations = <<>>
  /\ participants = {}
  /\ messages = <<>>
  /\ contactRequests \in ContactTables
  /\ messagingRules \in SwitchedOffTables

SpecRules == InitRules /\ [][NextPerm]_vars

\* ------------------------------------------------------------------------
\* SpecRead: markAsRead and sendMessage of u1 from two sessions (workers)
\* in conversation 1, with the updates of lastReadAt seen as the store
\* sees them: `new Date()` is evaluated when the handler makes the call,
\* the row is written when the statement reaches the database.
\* ------------------------------------------------------------------------
\* markAsRead: data: { lastReadAt: new Date() }
MarkAsReadStamp(p, userId, conversationId) ==
  /\ Free(p)
  /\ calls' = [calls EXCEPT ![p] =
       [Idle EXCEPT !.op = "read", !.pc = "read-write", !.ctx = UserOnly(userId),
                    !.conv = conversationId, !.at = now, !.result = "pending"]]
  /\ UNCHANGED <<store, now, published, history>>

\* markAsRead: participant.update reaches the store; it throws when the
\* row does not exist.
MarkAsReadWrite(p) ==
  /\ calls[p].op = "read" /\ calls[p].pc = "read-write"
  /\ IF IsParticipant(calls[p].ctx.userId, calls[p].conv)
       THEN /\ participants' = SetLastReadAt(participants, calls[p].conv,
                                             calls[p].ctx.userId, calls[p].at)
            /\ calls' = [calls EXCEPT ![p].pc = "done", ![p].result = "ok"]
       ELSE /\ UNCHANGED participants
            /\ calls' = [calls EXCEPT ![p].pc = "done", ![p].result = "StoreError"]
  /\ UNCHANGED <<conversations, messages, contactRequests, blockedUsers,
                 messagingRules, now, published, history>>

\* sendMessage: data: { lastReadAt: new Date() } of the sender's row
TouchSenderStamp(p) ==
  /\ calls[p].op = "send" /\ calls[p].pc = "participant"
  /\ calls' = [calls EXCEPT ![p].pc = "participant-write", ![p].at = now]
  /\ UNCHANGED <<store, now, published, history>>

\* sendMessage: the sender's participant.update reaches the store.
TouchSenderWrite(p) ==
  /\ calls[p].op = "send" /\ calls[p].pc = "participant-write"
  /\ participants' = SetLastReadAt(participants, calls[p].conv,
                                   calls[p].ctx.userId, calls[p].at)
  /\ calls' = [calls EXCEPT ![p].pc = "done", ![p].result = "ok"]
  /\ UNCHANGED <<conversations, messages, contactRequests, blockedUsers,
                 messagingRules, now, published, history>>

NextRead ==
  \/ \E p \in Procs, u \in {"u1", "u3"} : MarkAsReadStamp(p, u, 1) /\ UNCHANGED realtime
  \/ \E p \in Procs : MarkAsReadWrite(p) /\ UNCHANGED realtime
  \/ \E p \in Procs : SendCheck(p, Ctx("u1", "t1", Null, Null), "request", 1, MaxMessages)
       /\ UNCHANGED realtime
  \/ \E p \in Procs : SendInsertMessage(p, {TRUE}) /\ UNCHANGED realtime
  \/ \E p \in Procs : SendTouchConversation(p, {TRUE}) /\ UNCHANGED realtime
  \/ \E p \in Procs : TouchSenderStamp(p) /\ UNCHANGED realtime
  \/ \E p \in Procs : TouchSenderWrite(p) /\ UNCHANGED realtime
  \/ Tick(MaxTime) /\ UNCHANGED realtime

SpecRead == InitTouch /\ [][NextRead]_vars

\* ------------------------------------------------------------------------
\* SpecTenant: the sessions of SpecSession with handshakes whose token
\* names tenant t1 or no tenant, while the client asks for t1, t2 or none.
\* ------------------------------------------------------------------------
TenantClaims == {Null, "t1"}
ClientTenants == {Null, "t1", "t2"}

NextTenant ==
  \/ \E s \in SocketIds, token \in {"rejected", "valid"},
        claim \in TenantClaims, tenantId \in ClientTenants :
       HandshakeAuth(s, token, IF s = 1 THEN "u1" ELSE "u2", claim, tenantId)
  \/ \E s \in SocketIds : Authenticate(s)
  \/ \E s \in SocketIds : SetOnlineAdd(s)
  \/ \E s \in SocketIds : SetOnlineStamp(s)
  \/ \E s \in SocketIds : JoinUserConversations(s)
  \/ \E s \in SocketIds : Disconnect(s)
  \/ \E s \in SocketIds : SetOfflineRemove(s)
  \/ \E s \in SocketIds : SetOfflineStamp(s)
  \/ \E s \in SocketIds : PresenceGet(s, MaxPackets)

SpecTenant == InitSession /\ [][NextTenant]_vars

\* ------------------------------------------------------------------------
\* SpecPresence: the sessions of SpecSession, next to getParticipants of
\* the two conversations.
\* ------------------------------------------------------------------------
UserOrder == <<"u1", "u2", "u3">>

\* participants.map(p => ({ ..., isOnline: await presence.isOnline(p.userId,
\* p.tenantId || undefined), lastSeenAt: await presence.getLastSeen(p.userId) }))
RECURSIVE WithPresence(_, _)
WithPresence(conversationId, i) ==
  IF i > Len(UserOrder) THEN <<>>
  ELSE (IF IsParticipant(UserOrder[i], conversationId)
          THEN LET p == CHOOSE r \in ParticipantRow(conversationId, UserOrder[i]) : TRUE
               IN <<[userId |-> p.userId, tenantId |-> p.tenantId, role |-> p.role,
                     isOnline |-> IsOnline(p.userId, p.tenantId),
                     lastSeenAt |-> GetLastSeen(p.userId)]>>
          ELSE <<>>)
       \o WithPresence(conversationId, i + 1)

\* getParticipants(conversationId)
GetParticipants(p, conversationId) ==
  /\ calls' = [calls EXCEPT ![p] =
       [Idle EXCEPT !.op = "participants", !.pc = "done", !.conv = conversationId,
                    !.result = "ok", !.items = WithPresence(conversationId, 1)]]
  /\ UNCHANGED <<store, now, published, history>>

NextPresence ==
  \/ \E h \in Handshakes : Handshake(h[1], "valid", h[2], h[3])
  \/ \E s \in SocketIds : Authenticate(s)
  \/ \E s \in SocketIds : SetOnlineAdd(s)
  \/ \E s \in SocketIds : SetOnlineStamp(s)
  \/ \E s \in SocketIds : JoinUserConversations(s)
  \/ \E s \in SocketIds : Disconnect(s)
  \/ \E s \in SocketIds : SetOfflineRemove(s)
  \/ \E s \in SocketIds : SetOfflineStamp(s)
  \/ \E c \in {1, 2} : GetParticipants(1, c) /\ UNCHANGED realtime
  \/ Tick(MaxTime) /\ UNCHANGED realtime

SpecPresence == InitSession /\ [][NextPresence]_vars

\* ------------------------------------------------------------------------
\* SpecPage: a client of u1 reads conversation 1 page by page: getMessages
\* without cursor, then with the nextCursor of the page before, until a
\* page comes without one.  Nothing writes meanwhile.  history collects
\* the ids of the items in the order the client got them.
\* ------------------------------------------------------------------------
\* The messages of conversation 1 a store can hold: written one after the
\* other (createdAt does not decrease with the id), some deleted.
StoredMessage(createdAt, deletedAt) ==
  [conversationId |-> 1, senderId |-> "u2", content |-> 1, replyToId |-> NoId,
   createdAt |-> createdAt, deletedAt |-> deletedAt]

MessageTables ==
  UNION {
    {ms \in [1..n -> {StoredMessage(t, d) : t \in 0..MaxTime, d \in {NullTime, MaxTime}}] :
       \A i \in 1..n : \A j \in 1..n : i < j => ms[i].createdAt <= ms[j].createdAt}
    : n \in 0..MaxPageMessages }

InitPage ==
  /\ InitCommon
  /\ InitTwoSupport
  /\ messages \in MessageTables
  /\ messagingRules = {}

PageFirst(limit) ==
  /\ calls[1].op = "none"
  /\ GetMessages(1, "u1", 1, limit, NullTime)

PageFollow ==
  /\ calls[1].op = "messages" /\ calls[1].pc = "done"
  /\ calls[1].cursor # NullTime
  /\ history' = history \o calls[1].items
  /\ GetMessagesPage(1, "u1", 1, calls[1].count, calls[1].cursor)
  /\ UNCHANGED <<store, now, published>>

PageEnd ==
  /\ calls[1].op = "messages" /\ calls[1].pc = "done"
  /\ calls[1].cursor = NullTime
  /\ history' = history \o calls[1].items
  /\ calls' = [calls EXCEPT ![1].pc = "paged", ![1].items = <<>>]
  /\ UNCHANGED <<store, now, published>>

NextPage ==
  \/ \E limit \in 1..MaxPageMessages : PageFirst(limit) /\ UNCHANGED realtime
  \/ PageFollow /\ UNCHANGED realtime
  \/ PageEnd /\ UNCHANGED realtime

SpecPage == InitPage /\ [][NextPage]_vars

\* ------------------------------------------------------------------------
\* SpecTyping: typing.setTyping of u1 (worker 1) and u2 (worker 2) on
\* conversation 1 as the store sees it: hset and expire are two commands,
\* and time passes.  history records each setTyping call: <<user,
\* isTyping, time>>.
\* ------------------------------------------------------------------------
TypingUser(p) == IF p = 1 THEN "u1" ELSE "u2"

\* setTyping(conversationId, userId, true): await redis.hset(...)
SetTypingHSet(p, conversationId) ==
  /\ Free(p)
  /\ Len(history) < MaxTypingOps
  /\ typing' = HSet(conversationId, TypingUser(p))
  /\ calls' = [calls EXCEPT ![p] =
       [Idle EXCEPT !.op = "typing", !.pc = "expire", !.ctx = UserOnly(TypingUser(p)),
                    !.conv = conversationId, !.at = now, !.result = "pending"]]
  /\ history' = Append(history, <<TypingUser(p), TRUE, now>>)
  /\ UNCHANGED <<store, now, published, online, lastSeen, sockets, outbound,
                 emitted, node>>

\* setTyping(conversationId, userId, true): await redis.expire(key, 10)
SetTypingExpire(p) ==
  /\ calls[p].op = "typing" /\ calls[p].pc = "expire"
  /\ typing' = Expire(calls[p].conv)
  /\ calls' = [calls EXCEPT ![p].pc = "done", ![p].result = "ok"]
  /\ UNCHANGED <<store, now, published, history, online, lastSeen, sockets,
                 outbound, emitted, node>>

\* setTyping(conversationId, userId, false): await redis.hdel(key, userId)
SetTypingOff(p, conversationId) ==
  /\ Free(p)
  /\ Len(history) < MaxTypingOps
  /\ typing' = HDel(conversationId, TypingUser(p))
  /\ calls' = [calls EXCEPT ![p] =
       [Idle EXCEPT !.op = "typing", !.pc = "done", !.ctx = UserOnly(TypingUser(p)),
                    !.conv = conversationId, !.at = now, !.result = "ok"]]
  /\ history' = Append(history, <<TypingUser(p), FALSE, now>>)
  /\ UNCHANGED <<store, now, published, online, lastSeen, sockets, outbound,
                 emitted, node>>

NextTyping ==
  \/ \E p \in Procs : SetTypingHSet(p, 1)
  \/ \E p \in Procs : SetTypingExpire(p)
  \/ \E p \in Procs : SetTypingOff(p, 1)
  \/ Tick(MaxTypingTime) /\ UNCHANGED realtime

SpecTyping == InitTouch /\ [][NextTyping]_vars

\* ------------------------------------------------------------------------
\* Claims
\* ------------------------------------------------------------------------
ParticipantIdsOf(c) == {r.userId : r \in ParticipantsOf(c)}

DirectBetween(a, b) ==
  {c \in ConvIds : conversations[c].type = "DIRECT" /\ ParticipantIdsOf(c) = {a, b}}

RequestBetween(a, b) ==
  \E i \in ReqIds :
    {contactRequests[i].fromUserId, contactRequests[i].toUserId} = {a, b}

\* C1: at every moment, for every pair of distinct users a and b, at most
\* one DIRECT conversation with participant set {a, b} exists, also when
\* two creates for the pair run concurrently; a finished create for the
\* pair has returned a conversation (not an error) and it is that one.
C1_DirectUniquePerPair ==
  \A a \in Users : \A b \in Users \ {a} :
    /\ Cardinality(DirectBetween(a, b)) <= 1
    /\ \A p \in Procs :
         ( /\ calls[p].op = "create" /\ calls[p].pc = "done"
           /\ calls[p].type = "DIRECT" /\ calls[p].pids = <<b>>
           /\ calls[p].ctx.userId = a /\ calls[p].perm.allowed )
         => /\ calls[p].result = "ok"
            /\ DirectBetween(a, b) = {calls[p].conv}

\* C2: for a creator in a tenant and another user, with no block and no
\* contact request between them, a finished CreateConversation of type
\* DIRECT has succeeded, every finished call for the pair returned the same
\* id, one conversation exists for the pair, and its participants are the
\* creator as OWNER and the other user as MEMBER.
C2_DirectCreateIdempotent ==
  \A p \in Procs :
    ( /\ calls[p].op = "create" /\ calls[p].pc = "done"
      /\ calls[p].type = "DIRECT" /\ Len(calls[p].pids) = 1
      /\ calls[p].ctx.tenantId # Null
      /\ calls[p].pids[1] # calls[p].ctx.userId
      /\ ~RequestBetween(calls[p].ctx.userId, calls[p].pids[1])
      /\ <<calls[p].ctx.userId, calls[p].pids[1]>> \notin blockedUsers
      /\ <<calls[p].pids[1], calls[p].ctx.userId>> \notin blockedUsers )
    => /\ calls[p].result = "ok"
       /\ DirectBetween(calls[p].ctx.userId, calls[p].pids[1]) = {calls[p].conv}
       /\ {[userId |-> r.userId, role |-> r.role] : r \in ParticipantsOf(calls[p].conv)}
            = { [userId |-> calls[p].ctx.userId, role |-> "OWNER"],
                [userId |-> calls[p].pids[1], role |-> "MEMBER"] }

\* C3: a SendMessage by a user who has no participant row in the
\* conversation fails with the not-participant error in that one step and
\* changes nothing: messages, conversations (updatedAt) and participants
\* (lastReadAt) are as before, and no message:new has been published.
C3_NonParticipantSendChangesNothing ==
  [][\A i \in SendInputs :
       ( /\ SendCheck(1, i[1], i[2], i[3], MaxMessages)
         /\ ParticipantRow(i[3], i[1].userId) = {} )
       => /\ calls'[1].pc = "done"
          /\ calls'[1].result = "NotParticipant"
          /\ messages' = messages
          /\ conversations' = conversations
          /\ participants' = participants
          /\ \A e \in published'[1] : e.event # "message:new"]_vars

\* u3 has sent on the session path into conversation 1, which holds a
\* message of a participant, and got message:error.
C3_Witness ==
  /\ calls[1].op = "send" /\ calls[1].pc = "done"
  /\ calls[1].result = "NotParticipant"
  /\ calls[1].ctx.userId = "u3" /\ calls[1].conv = 1 /\ calls[1].path = "session"
  /\ published[1] = {Event("message:error", "socket", 1, "u3", NoId)}
  /\ \E m \in MsgIds : messages[m].conversationId = 1 /\ messages[m].deletedAt = NullTime

\* The messages the specification counts as unread for a user.
UnreadMessagesOf(u) ==
  {m \in MsgIds :
     /\ messages[m].deletedAt = NullTime
     /\ messages[m].senderId # u
     /\ \E r \in participants :
          /\ r.userId = u
          /\ r.conversationId = messages[m].conversationId
          /\ (r.lastReadAt = NullTime \/ messages[m].createdAt > r.lastReadAt)}

\* C4: GetUnreadCount(userId) is exactly the number of messages, over the
\* conversations of userId, that are not deleted, not sent by userId and
\* created strictly after that participant's lastReadAt (all of them when
\* lastReadAt is null); a finished getUnreadCount has returned that number.
C4_UnreadCountExact ==
  /\ \A u \in Users : GetUnreadCount(u) = Cardinality(UnreadMessagesOf(u))
  /\ (calls[1].op = "unread" /\ calls[1].pc = "done")
       => calls[1].count = Cardinality(UnreadMessagesOf(calls[1].ctx.userId))

\* u1 got 1: one message of u2 is counted, another one created at the very
\* instant of u1's lastReadAt is not.
C4_Witness ==
  /\ calls[1].op = "unread" /\ calls[1].ctx.userId = "u1" /\ calls[1].count = 1
  /\ \E m \in MsgIds, r \in participants :
       /\ r.userId = "u1" /\ r.conversationId = messages[m].conversationId
       /\ messages[m].senderId = "u2" /\ messages[m].deletedAt = NullTime
       /\ messages[m].createdAt = r.lastReadAt

\* The scenario of C5: three sends of u2, markAsRead of u1, one more send
\* of u2, one send of u1.
Script ==
  << <<"send", "u2">>, <<"send", "u2">>, <<"send", "u2">>, <<"read", "u1">>,
     <<"send", "u2">>, <<"send", "u1">> >>

After(n) == Free(1) /\ history = SubSeq(Script, 1, n)

LastReadAtOf(c, u) == (CHOOSE r \in ParticipantRow(c, u) : TRUE).lastReadAt

\* C5 as the specification states it: unread of u1 is 3 after the three
\* sends of u2, 0 after u1's markAsRead, 1 after one more send of u2, and
\* still 1 after u1's own send.
C5_ScenarioAsStated ==
  /\ After(3) => GetUnreadCount("u1") = 3
  /\ After(4) => GetUnreadCount("u1") = 0
  /\ After(5) => GetUnreadCount("u1") = 1
  /\ After(6) => GetUnreadCount("u1") = 1

\* C5 as the code has it: 3 after the three sends of u2; 0 after u1's
\* markAsRead; after one more send of u2, 1 if that message was created
\* strictly later than the markAsRead and 0 if in the same clock instant;
\* 0 after u1's own send, which sets u1's lastReadAt.
C5_ScenarioAmended ==
  /\ After(3) => GetUnreadCount("u1") = 3
  /\ After(4) => GetUnreadCount("u1") = 0
  /\ After(5) => GetUnreadCount("u1") =
         IF messages[4].createdAt > LastReadAtOf(1, "u1") THEN 1 ELSE 0
  /\ After(6) => GetUnreadCount("u1") = 0

\* The whole scenario has run, the fourth message of u2 came strictly
\* after the earlier ones, and getUnreadCount(u1) has returned 0.
C5_Witness ==
  /\ history = Script
  /\ calls[1].op = "unread" /\ calls[1].pc = "done" /\ calls[1].count = 0
  /\ Len(messages) = 5
  /\ messages[4].createdAt > messages[3].createdAt

\* C6: sendMessage is atomic over its three writes: a send that has
\* reported a failure of the store has left no message behind.
C6_FailedSendLeavesNoMessage ==
  (calls[1].op = "send" /\ calls[1].pc = "done" /\ calls[1].result = "StoreError")
    => calls[1].msg \notin MsgIds

BlockRowBetween(a, b) ==
  <<a, b>> \in blockedUsers \/ <<b, a>> \in blockedUsers

AcceptedRequestBetween(a, b) ==
  \E i \in ReqIds :
    /\ contactRequests[i].status = "ACCEPTED"
    /\ {contactRequests[i].fromUserId, contactRequests[i].toUserId} = {a, b}

\* C7: for distinct users a and b, CanSendMessage(a, b) is denied as
\* blocked whenever a BlockedUser row (a, b) or (b, a) exists, whatever the
\* tenants, the accepted contact requests and the rules are; so it stays
\* denied in both directions while one of two mutual blocks remains.
C7_BlockDeniesBothDirections ==
  \A s \in Contexts, r \in Contexts :
    (s.userId # r.userId /\ BlockRowBetween(s.userId, r.userId))
      => /\ ~CanSendMessage(s, r).allowed
         /\ CanSendMessage(s, r).reason = "User is blocked"

\* u1 has removed its block of u2 (one row deleted), the block of u2 on
\* u1 remains, the two are an approved contact, and u1 is denied towards
\* its tenant colleague u2.
C7_Witness ==
  /\ calls[2].op = "unblock" /\ calls[2].ctx.userId = "u1"
  /\ calls[2].target = "u2" /\ calls[2].count = 1
  /\ blockedUsers = {<<"u2", "u1">>}
  /\ AcceptedRequestBetween("u1", "u2")
  /\ calls[1].op = "canSend" /\ calls[1].ctx = Ctx("u1", "t1", "owner", Null)
  /\ calls[1].target = "u2" /\ calls[1].perm.reason = "User is blocked"
  /\ ~CanSendMessage(Ctx("u2", "t1", "member", Null), Ctx("u1", "t1", "owner", Null)).allowed

\* The positions of the rules matching the pair, in the order in which
\* canSendMessage walks the rules.
MatchingRules(s, r) ==
  {i \in 1..Len(GetActiveRules) : MatchesRule(GetActiveRules[i], s, r)}

\* What the rule at position i decides for the pair.
DecidedByRule(res, i, s, r) ==
  LET rule == GetActiveRules[i]
  IN /\ res.rule = rule.id
     /\ IF rule.requireApproval
          THEN ~res.allowed /\ res.requiresApproval
          ELSE IF /\ rule.maxMessagesPerDay # NoLimit
                  /\ GetMessageCountToday(s.userId, r.userId) >= rule.maxMessagesPerDay
            THEN ~res.allowed /\ res.reason = "Rate limit exceeded"
            ELSE res.allowed

\* C8: CanSendMessage returns the first conclusive outcome of the order
\* self, block, same tenant, accepted contact, first matching active rule,
\* no rule; a same-tenant or approved pair is never decided by a rule.
C8_DecisionOrder ==
  \A s \in Contexts, r \in Contexts :
    LET res == CanSendMessage(s, r)
    IN IF s.userId = r.userId
         THEN res.allowed
       ELSE IF BlockRowBetween(s.userId, r.userId)
         THEN ~res.allowed /\ res.reason = "User is blocked"
       ELSE IF s.tenantId # Null /\ s.tenantId = r.tenantId
         THEN res.allowed /\ res.reason = "Same tenant" /\ res.rule = Null
       ELSE IF AcceptedRequestBetween(s.userId, r.userId)
         THEN res.allowed /\ res.reason = "Approved contact" /\ res.rule = Null
       ELSE IF MatchingRules(s, r) # {}
         THEN \E i \in MatchingRules(s, r) :
                /\ \A j \in MatchingRules(s, r) : i <= j
                /\ DecidedByRule(res, i, s, r)
       ELSE /\ ~res.allowed /\ res.rule = Null
            /\ res.reason = "No matching permission rule"

\* A finished canSendMessage of owner u1 towards owner u2 of another
\* tenant said "Approved contact" although the approval-requiring rule
\* matches the pair, and u1's tenant colleague is allowed as "Same tenant".
C8_Witness ==
  /\ calls[1].op = "canSend" /\ calls[1].pc = "done"
  /\ calls[1].ctx = Ctx("u1", "t1", "owner", Null) /\ calls[1].target = "u2"
  /\ calls[1].perm = Result(TRUE, Null, FALSE, "Approved contact")
  /\ MatchesRule(CrossOrgManagers, Ctx("u1", "t1", "owner", Null),
                 Ctx("u2", "t2", "owner", Null))
  /\ CrossOrgManagers \in messagingRules
  /\ blockedUsers = {}
  /\ CanSendMessage(Ctx("u1", "t1", "owner", Null),
                    Ctx("u2", "t1", "member", Null)).reason = "Same tenant"

\* C9: for u1 owner of t1 and u2 owner of t2 under the seed rules and
\* without a block: while no request between them is accepted,
\* CanSendMessage(u1 -> u2) is denied with requiresApproval and the rule
\* cross-org-managers; once the request of u1 to u2 is accepted it is
\* allowed with reason "Approved contact".
C9_ApprovalThenAllowed ==
  LET u1 == Ctx("u1", "t1", "owner", Null)
      u2 == Ctx("u2", "t2", "owner", Null)
      res == CanSendMessage(u1, u2)
  IN (messagingRules = SeedRules /\ ~BlockRowBetween("u1", "u2"))
       => /\ ~AcceptedRequestBetween("u1", "u2")
               => /\ ~res.allowed /\ res.requiresApproval
                  /\ res.rule = "cross-org-managers"
          /\ AcceptedRequestBetween("u1", "u2")
               => res = Result(TRUE, Null, FALSE, "Approved contact")

\* u2 has accepted the request of u1, and u1's canSendMessage towards u2
\* has then returned "Approved contact" under the seed rules.
C9_Witness ==
  /\ messagingRules = SeedRules
  /\ calls[2].op = "respond" /\ calls[2].pc = "done" /\ calls[2].result = "ok"
  /\ calls[2].ctx.userId = "u2" /\ calls[2].target = "accept"
  /\ contactRequests[1].fromUserId = "u1" /\ contactRequests[1].status = "ACCEPTED"
  /\ calls[1].op = "canSend" /\ calls[1].ctx = Ctx("u1", "t1", "owner", Null)
  /\ calls[1].target = "u2" /\ calls[1].perm.reason = "Approved contact"

\* Messages of u1 created today in a conversation that u1 and u2 share.
SentTodayTo(a, b) ==
  {m \in MsgIds :
     /\ messages[m].senderId = a
     /\ messages[m].createdAt >= StartOfDay(now)
     /\ {a, b} \subseteq ParticipantIdsOf(messages[m].conversationId)}

\* C10: with cross-org-managers (maxMessagesPerDay = 10) as the rule for
\* u1 -> u2, u1 never has more than 10 messages of one day accepted towards
\* u2, and once 10 are accepted canSendMessage(u1 -> u2) denies with the
\* rate-limit reason.
C10_RateLimitEnforced ==
  /\ Cardinality(SentTodayTo("u1", "u2")) <= CrossOrgManagers.maxMessagesPerDay
  /\ Cardinality(SentTodayTo("u1", "u2")) >= CrossOrgManagers.maxMessagesPerDay
       => LET res == CanSendMessage(Ctx("u1", "t1", "owner", Null),
                                    Ctx("u2", "t2", "owner", Null))
          IN ~res.allowed /\ res.reason = "Rate limit exceeded"

\* Contexts with a recipient who holds a tenant role and a platform role.
DualRoleContexts ==
  Contexts \cup { Ctx("u2", "t2", "owner", "platform_support"),
                  Ctx("u1", "t1", "owner", "platform_admin") }

RuleOfId(id) ==
  CHOOSE i \in 1..Len(GetActiveRules) : GetActiveRules[i].id = id

\* C11: when no earlier step of CanSendMessage is conclusive, the rules
\* are visited in strictly descending priority, also when the default rule
\* set is in force, and the deciding rule is the matching active rule of
\* highest priority.
C11_HighestPriorityDecides ==
  /\ \A i, j \in 1..Len(GetActiveRules) :
       i < j => GetActiveRules[i].priority > GetActiveRules[j].priority
  /\ \A s \in DualRoleContexts, r \in DualRoleContexts :
       ( /\ s.userId # r.userId
         /\ ~BlockRowBetween(s.userId, r.userId)
         /\ ~(s.tenantId # Null /\ s.tenantId = r.tenantId)
         /\ ~AcceptedRequestBetween(s.userId, r.userId)
         /\ MatchingRules(s, r) # {} )
       => /\ CanSendMessage(s, r).rule # Null
          /\ \A i \in MatchingRules(s, r) :
               GetActiveRules[i].priority
                 <= GetActiveRules[RuleOfId(CanSendMessage(s, r).rule)].priority

\* The two sides of a match as the specification words them.
SourceSideHolds(rule, sender) ==
  IF rule.sourceScope = "tenant"
    THEN sender.tenantId # Null /\ sender.tenantRole \in rule.sourceRoles
    ELSE sender.tenantRole \in rule.sourceRoles
           \/ sender.platformRole \in rule.sourceRoles

TargetSideHolds(rule, sender, recipient) ==
  IF rule.targetScope = "tenant"
    THEN /\ sender.tenantId # Null /\ recipient.tenantId # Null
         /\ sender.tenantId = recipient.tenantId
         /\ recipient.tenantRole \in rule.targetRoles
    ELSE recipient.tenantRole \in rule.targetRoles
           \/ recipient.platformRole \in rule.targetRoles

\* C12: matches(rule, sender, recipient) is true exactly when the source
\* side and the target side hold, for every combination of present and
\* absent tenantId, tenantRole and platformRole.
C12_MatchesExactly ==
  calls[1].op = "match"
    => ( calls[1].result = "match"
           <=> /\ SourceSideHolds(TheRule, calls[1].ctx)
               /\ TargetSideHolds(TheRule, calls[1].ctx, calls[2].ctx) )

PendingFromTo(a, b) ==
  {i \in ReqIds : /\ contactRequests[i].status = "PENDING"
                  /\ contactRequests[i].fromUserId = a
                  /\ contactRequests[i].toUserId = b}

Unexpired(i) == contactRequests[i].expiresAt > now

\* C14: a PENDING request with expiresAt <= now is treated as EXPIRED by
\* every reader: it is in neither the received nor the sent list, it has
\* not been answered at or after its expiry, it is no pending request for
\* CanSendMessage, and it is not the existing request that stops a new one.
C14_ExpiredPendingIgnored ==
  /\ \A u \in Users : \A i \in ReceivedRequests(u) \cup SentRequests(u) : Unexpired(i)
  /\ \A i \in ReqIds :
       contactRequests[i].respondedAt # NullTime
         => contactRequests[i].respondedAt < contactRequests[i].expiresAt
  /\ \A a \in Users, b \in Users :
       /\ GetPendingRequest(a, b) => \E i \in PendingFromTo(a, b) : Unexpired(i)
       /\ ExistingPending(a, b) => \E i \in PendingFromTo(a, b) : Unexpired(i)

\* C15: MarkAsRead of a participant sets lastReadAt to the time of the
\* call and does not increase that user's unread count; a second call
\* right after a first one leaves a lastReadAt that is not earlier than
\* the one the first call wrote.
C15_MarkAsReadIdempotent ==
  [][MarkAsRead(1, "u1", 1, TRUE)
       => /\ LastReadAtOf(1, "u1")' = now
          /\ GetUnreadCount("u1")' <= GetUnreadCount("u1")
          /\ (calls[1].op = "read" /\ calls[1].result = "ok")
               => /\ LastReadAtOf(1, "u1")' >= LastReadAtOf(1, "u1")
                  /\ GetUnreadCount("u1")' = GetUnreadCount("u1")]_vars

\* u1 has called markAsRead twice in a row, the second time at a later
\* clock value than the message of u2 it covers.
C15_Witness ==
  /\ Len(history) >= 3
  /\ history[Len(history)] = <<"read", "u1">>
  /\ history[Len(history) - 1] = <<"read", "u1">>
  /\ calls[1].op = "read" /\ calls[1].result = "ok"
  /\ LastReadAtOf(1, "u1") = now /\ now > 0
  /\ \E m \in MsgIds : messages[m].senderId = "u2" /\ messages[m].createdAt < now
  /\ GetUnreadCount("u1") = 0

\* C16: once presence.setOnline(u, t) and then presence.setOffline(u, t) of
\* a connection have completed, IsOnline(u, t) is false, u is not among
\* GetOnlineUsers(t), and GetLastSeen(u) is not before the time at which
\* setOffline was called.
C16_OfflineAfterOnline ==
  \A s \in SocketIds :
    sockets[s].pc = "done" =>
      /\ ~IsOnline(sockets[s].userId, sockets[s].tenantId)
      /\ sockets[s].userId \notin GetOnlineUsers(sockets[s].tenantId)
      /\ GetLastSeen(sockets[s].userId) >= sockets[s].closedAt

C16_Witness ==
  /\ sockets[2].pc = "done" /\ sockets[2].tenantId = Null
  /\ sockets[2].closedAt = 1
  /\ sockets[1].pc = "ready" /\ sockets[1].state = "connected"
  /\ IsOnline("u1", "t1") /\ ~IsOnline("u2", Null)
  /\ GetLastSeen("u2") = 1

\* The packets of a queue that went to the room of conversation c.
OnTopic(queue, c) ==
  LET ToRoom(packet) == packet[1] = ConversationRoom(c)
  IN SelectSeq(queue, ToRoom)

Handling(p) == calls[p].op = "send" /\ calls[p].pc \notin {"idle", "done"}

\* C18: the handling of m2 (handler 2) does not start before the handling
\* of m1 (handler 1) has finished: the two are never in progress together,
\* and m1 is persisted and published before m2.
C18_SessionEventsSerial ==
  /\ ~(Handling(1) /\ Handling(2))
  /\ calls[2].msg # NoId => (calls[1].msg # NoId /\ calls[1].msg < calls[2].msg)
  /\ calls[2].pc \in {"fanout", "done"} => calls[1].pc \in {"fanout", "done"}

\* C19: a connection whose token is missing, is rejected by verifyToken or
\* has no subject is never connected: it is authenticating or closed, it
\* is in no room, its connection handler never ran (no setOnline, no
\* listener registered, so no client event handled) and nothing was sent
\* to it.
C19_UnauthenticatedNeverConnected ==
  \A s \in SocketIds :
    (sockets[s].state # "none" /\ sockets[s].token # "valid") =>
      /\ sockets[s].state \in {"authenticating", "closed"}
      /\ sockets[s].rooms = {}
      /\ sockets[s].pc = "idle"
      /\ ~sockets[s].listening
      /\ ~IsOnline(sockets[s].userId, sockets[s].tenantId)
      /\ GetLastSeen(sockets[s].userId) = NullTime
      /\ outbound[s] = <<>>

C19_Witness ==
  /\ sockets[1].token = "missing" /\ sockets[1].state = "closed"
  /\ sockets[2].token = "rejected" /\ sockets[2].state = "closed"
  /\ online = [k \in OnlineKeys |-> {}]
  /\ emitted = <<>>

\* C20: a closed session whose handlers have all returned has had
\* presence.setOffline executed (its user is not in the online set) and,
\* with a tenant, presence:offline emitted to the tenant room.
C20_ClosedSessionSetOffline ==
  \A s \in SocketIds :
    (/\ sockets[s].token = "valid"
     /\ sockets[s].state = "closed"
     /\ sockets[s].pc \in {"ready", "done"}) =>
      /\ ~IsOnline(sockets[s].userId, sockets[s].tenantId)
      /\ sockets[s].tenantId # Null =>
           \E i \in 1..Len(emitted) :
             emitted[i] = <<TenantRoom(sockets[s].tenantId),
                            Event("presence:offline", "tenant", NoId,
                                  sockets[s].userId, NoId)>>

\* The presence events of a user on the topic of tenant t1.
PresenceEvent(name, userId) ==
  <<TenantRoom("t1"), Event(name, "tenant", NoId, userId, NoId)>>

\* The grace window of the specification (5 s) in clock units.
GraceWindow == 2

\* C21: when a session of a user has closed and a session of the same user
\* is opened after it within the grace window, the server has not emitted
\* presence:offline and after it presence:online for that user.
C21_NoFlapOnReconnect ==
  \A a \in SocketIds : \A b \in SocketIds \ {a} :
    (/\ sockets[a].userId = sockets[b].userId
     /\ sockets[a].state = "closed"
     /\ sockets[b].state # "none"
     /\ sockets[b].openedAt > sockets[a].closedAt
     /\ sockets[b].openedAt - sockets[a].closedAt < GraceWindow) =>
      ~\E i \in 1..Len(emitted) : \E j \in (i + 1)..Len(emitted) :
          /\ emitted[i] = PresenceEvent("presence:offline", sockets[a].userId)
          /\ emitted[j] = PresenceEvent("presence:online", sockets[a].userId)

\* C30: a user with a connected session whose setOnline has completed is
\* in the online set of the tenant of that session.
C30_OnlineWhileConnected ==
  \A s \in SocketIds :
    (sockets[s].state = "connected" /\ sockets[s].pc = "ready") =>
      IsOnline(sockets[s].userId, sockets[s].tenantId)

\* A message:send handler that has returned without a throw.
SentOk(p) == calls[p].op = "send" /\ calls[p].pc = "done" /\ calls[p].result = "ok"

\* The socket was sent an event of this name about message m.
Received(s, name, m) ==
  \E i \in 1..Len(outbound[s]) :
    outbound[s][i][2].event = name /\ outbound[s][i][2].msg = m

\* The server emitted this event to this room.
Emitted(room, event) == \E i \in 1..Len(emitted) : emitted[i] = <<room, event>>

\* What a successful message:send of handler p has brought about.
Delivered(p) ==
  LET c == calls[p].conv
      m == calls[p].msg
      others == {r.userId : r \in ParticipantsOf(c)} \ {calls[p].ctx.userId}
  IN /\ messages[m].conversationId = c /\ messages[m].senderId = calls[p].ctx.userId
     /\ Emitted(ConversationRoom(c), Event("message:new", "conversation", c, Null, m))
     /\ \A u \in others :
          Emitted(UserRoom(u), Event("message:new", "user", c, u, m))
     /\ \A s \in SocketIds :
          (sockets[s].state = "connected" /\ sockets[s].userId \in others) =>
            Received(s, "message:new", m)
     /\ Received(p, "message:sent", m)

\* C22: after a successful message:send, message:new for the message has
\* been emitted to conversation:{c} and to user:{p} of every other
\* participant, every connected session of another participant was sent
\* it, the sender's session was sent message:sent with the message id,
\* and at the return of the handler the sender is not in TypingUsers(c).
C22_SendPublishes ==
  [][\A p \in Procs :
       /\ SentOk(p)' => Delivered(p)'
       /\ (calls[p].pc = "typing" /\ SentOk(p)') =>
            calls[p].ctx.userId \notin GetTypingUsers(calls[p].conv)']_vars

\* u1 was typing, its send has returned, and u2, which is not subscribed
\* to conversation:1, was sent message:new once, through user:u2.
C22_Witness ==
  /\ SentOk(1) /\ calls[1].conv = 1
  /\ Emitted(ConversationRoom(1),
             Event("typing:update", "conversation", 1, "u1", NoId))
  /\ typing[1].at["u1"] = NullTime
  /\ ConversationRoom(1) \notin sockets[2].rooms
  /\ Len(outbound[2]) = 1
  /\ Received(2, "message:new", calls[1].msg)

\* The events of the current message:send of handler p, by name.
Got(p, name) == \E e \in published[p] : e.event = name

\* C23: a message:send that is answered with message:error has persisted
\* no message, and no message:send is answered with both message:sent and
\* message:error.
C23_ErrorOnlyWhenNothingPersisted ==
  \A p \in Procs :
    calls[p].op = "send" =>
      /\ Got(p, "message:error") => calls[p].msg = NoId
      /\ ~(Got(p, "message:sent") /\ Got(p, "message:error"))

\* C24: a process that cannot reach the bus at startup does not exit.
C24_StartsWithoutBus ==
  node.bus = "down" => node.status # "exited"

\* C25: updatedAt of a conversation is never before its createdAt and no
\* write makes it older than it was.
C25_UpdatedAtMonotonic ==
  [][\A c \in ConvIds :
       /\ conversations'[c].updatedAt >= conversations'[c].createdAt
       /\ conversations'[c].updatedAt >= conversations[c].updatedAt]_vars

\* The message of conversation c persisted last.
LatestIn(c) ==
  CHOOSE m \in Listed(c, NullTime) : \A n \in Listed(c, NullTime) : n <= m

\* C26: getMessages without cursor, called by a participant when no send
\* is in progress, returns only messages of the conversation that are not
\* deleted, newest first, and the message sent last into the conversation
\* is its first item.
C26_LatestMessageFirst ==
  \A p \in Procs :
    (calls[p].op = "messages" /\ calls[p].result = "ok") =>
      /\ \A i \in 1..Len(calls[p].items) :
           /\ messages[calls[p].items[i]].conversationId = calls[p].conv
           /\ messages[calls[p].items[i]].deletedAt = NullTime
      /\ NewestFirst(calls[p].items)
      /\ Listed(calls[p].conv, NullTime) # {} =>
           /\ calls[p].items # <<>>
           /\ calls[p].items[1] = LatestIn(calls[p].conv)

\* C27: every persisted message has between 1 and 10 000 characters.
C27_ContentWithinBounds ==
  \A m \in MsgIds : ValidContent(messages[m].content)

\* C28: the replyToId of a persisted message names a message of the same
\* conversation.
C28_ReplyInSameConversation ==
  \A m \in MsgIds :
    messages[m].replyToId # NoId =>
      /\ messages[m].replyToId \in MsgIds
      /\ messages[messages[m].replyToId].conversationId = messages[m].conversationId

RowsOf(c) == {r \in participants : r.conversationId = c}

\* A DIRECT create that names no, several, or the creator as participant.
MalformedDirect(call) ==
  /\ call.op = "create" /\ call.type = "DIRECT"
  /\ \/ Len(call.pids) # 1
     \/ call.pids[1] = call.ctx.userId

BlockAmong(users) ==
  \E a \in users, b \in users : a # b /\ BlockRowBetween(a, b)

\* C31: no message is persisted in a DIRECT conversation while a block row
\* exists between its two participants, and no conversation is created
\* while a block row exists between two of its participants.
C31_BlockVetoesSendAndCreate ==
  [][/\ Len(messages') > Len(messages) =>
          LET m == messages'[Len(messages')]
          IN conversations[m.conversationId].type = "DIRECT" =>
               ~BlockAmong(ParticipantIdsOf(m.conversationId))
     /\ Len(conversations') > Len(conversations) =>
          ~BlockAmong({r.userId : r \in participants' \ participants})]_vars

\* The session's user takes no part in conversation c.
Outsider(s, c) ==
  sockets[s].state = "connected" /\ ~IsParticipant(sockets[s].userId, c)

\* C32: a session of a non-participant of c is never in the room of c; no
\* typing entry of c and no typing:update or messages:read in the room of
\* c belongs to a user who takes no part in c; and no session receives
\* the typing:update or messages:read of its own user.
C32_ParticipantGateOnEvents ==
  /\ \A s \in SocketIds : \A c \in ConvIds :
       Outsider(s, c) => ConversationRoom(c) \notin sockets[s].rooms
  /\ \A c \in ConvIds : \A u \in Users :
       typing[c].at[u] # NullTime => IsParticipant(u, c)
  /\ \A i \in 1..Len(emitted) : \A c \in ConvIds :
       (emitted[i][1] = ConversationRoom(c)
          /\ emitted[i][2].event \in {"typing:update", "messages:read"})
         => IsParticipant(emitted[i][2].user, c)
  /\ \A s \in SocketIds : \A i \in 1..Len(outbound[s]) :
       outbound[s][i][2].event \in {"typing:update", "messages:read"}
         => outbound[s][i][2].user # sockets[s].userId

\* What the token of each user says about it: u1 is owner in t1, u2 is
\* owner in t2.
ContextOf(userId) ==
  IF userId = "u1" THEN Ctx("u1", "t1", "owner", Null)
                   ELSE Ctx(userId, "t2", "owner", Null)

\* C33: when POST /contacts/requests starts while the permission engine,
\* asked with the contexts of the two users, answers "approval required",
\* the route goes on to the pending lookup and the create (it does not
\* answer CONFLICT or CONTACT_REQUEST_REQUIRED).
C33_RequestCreatedWhenApprovalRequired ==
  [][\A p \in Procs :
       (Free(p) /\ calls'[p] # calls[p] /\ calls'[p].op = "request") =>
         LET verdict == CanSendMessage(ContextOf(calls'[p].ctx.userId),
                                       ContextOf(calls'[p].target))
         IN (~verdict.allowed /\ verdict.requiresApproval) =>
              calls'[p].pc = "existing"]_vars

\* C34: a rule that decides a canSendMessage outcome is an active row of
\* the rule table, or a default rule when the table is empty; when the
\* table has rows but no active one, no rule decides.
C34_InactiveRulesNeverDecide ==
  \A p \in Procs :
    (calls[p].op = "canSend" /\ calls[p].pc = "done") =>
      /\ calls[p].perm.rule # Null =>
           IF messagingRules = {}
             THEN \E i \in 1..Len(DEFAULT_RULES) : DEFAULT_RULES[i].id = calls[p].perm.rule
             ELSE \E r \in messagingRules : r.id = calls[p].perm.rule /\ r.isActive
      /\ (messagingRules # {} /\ \A r \in messagingRules : ~r.isActive) =>
           calls[p].perm.rule = Null

\* C35: no step makes the lastReadAt of a participant row older than it
\* was.
C35_LastReadAtMonotonic ==
  [][\A r \in participants : \A q \in participants' :
       (q.conversationId = r.conversationId /\ q.userId = r.userId)
         => q.lastReadAt >= r.lastReadAt]_vars

\* C36: the status of a contact request changes only from PENDING, only
\* in a respond call of its toUserId, and an answered request keeps its
\* status.
C36_AnsweredOnceByRecipient ==
  [][\A i \in ReqIds :
       contactRequests'[i].status # contactRequests[i].status =>
         /\ contactRequests[i].status = "PENDING"
         /\ \E p \in Procs :
              /\ calls[p].op = "respond" /\ calls[p].req = i
              /\ calls[p].ctx.userId = contactRequests[i].toUserId]_vars

\* C37: the tenant of a connected session is the one its token names: the
\* session is in no other tenant room, its user is put into no other
\* online set, and presence:get reads no other set.
C37_TenantFromTokenOnly ==
  /\ \A s \in SocketIds :
       sockets[s].state = "connected" =>
         /\ sockets[s].tenantId = sockets[s].claim
         /\ \A t \in ClientTenants \ {Null} :
              TenantRoom(t) \in sockets[s].rooms => t = sockets[s].claim
  /\ \A t \in ClientTenants \ {Null} : \A u \in online[t] :
       \E s \in SocketIds : sockets[s].userId = u /\ sockets[s].claim = t

\* presence.setOnline of the session has run and the session is open.
SetOnlineDone(s) ==
  sockets[s].state = "connected" /\ sockets[s].pc \in {"join", "ready"}

\* C38: getParticipants reports isOnline = true for every participant who
\* has an open session whose setOnline has run.
C38_ParticipantPresenceAgrees ==
  [][(calls'[1].op = "participants" /\ calls'[1] # calls[1]) =>
       \A s \in SocketIds : SetOnlineDone(s) =>
         \A i \in 1..Len(calls'[1].items) :
           calls'[1].items[i].userId = sockets[s].userId
             => calls'[1].items[i].isOnline]_vars

\* The ids the client has been given so far, the page in hand included.
PagedSoFar == history \o calls[1].items

\* C39: when the client has followed nextCursor to the end, it has been
\* given every non-deleted message of the conversation exactly once; and
\* each page carries a nextCursor exactly when messages remain that the
\* client has not been given.
C39_PagingReturnsEachOnce ==
  /\ calls[1].pc = "paged" =>
       /\ {history[i] : i \in 1..Len(history)} = Listed(1, NullTime)
       /\ Len(history) = Cardinality(Listed(1, NullTime))
  /\ (calls[1].op = "messages" /\ calls[1].pc = "done") =>
       (calls[1].cursor # NullTime <=>
          Listed(1, NullTime) \ {PagedSoFar[i] : i \in 1..Len(PagedSoFar)} # {})

\* The setTyping calls of user u, in the order they were made.
TypingCallsOf(u) == {i \in 1..Len(history) : history[i][1] = u}

\* The latest setTyping of u was setTyping(true), less than the typing
\* window ago.
TypingExpected(u) ==
  /\ TypingCallsOf(u) # {}
  /\ LET last == CHOOSE i \in TypingCallsOf(u) : \A j \in TypingCallsOf(u) : j <= i
     IN history[last][2] /\ now - history[last][3] < TypingWindow

\* C40: whenever no setTyping call is in progress, getTypingUsers of the
\* conversation holds exactly the users whose latest setTyping was
\* setTyping(true) less than 5 seconds ago.
C40_TypingUsersExact ==
  (\A p \in Procs : Free(p)) =>
    \A u \in {"u1", "u2"} : u \in GetTypingUsers(1) <=> TypingExpected(u)

====
